---- MODULE Spec2Model ----
(***************************************************************************)
(* A model of hwpx_parser.py: the HWP5 (OLE) / HWPX (ZIP+XML) line         *)
(* extractor.  Strings are sequences of Unicode code points and byte       *)
(* strings are sequences of 0..255, so that sorting, prefix tests, case    *)
(* folding, UTF-16LE decoding and whitespace handling are computed the way *)
(* the Python code computes them.                                          *)
(***************************************************************************)
EXTENDS Integers, Sequences, FiniteSets, TLC

VARIABLES
    pc,       \* position of main() / of the function a specification runs
    file,     \* the input: path name, first bytes, container content
    args,     \* parsed command line: [out, hard_wrap]
    kind,     \* result of detect_container, "" before it ran
    queue,    \* entries / section names / input lines still to process
    opened,   \* body streams / section parts opened so far, in order
    out,      \* extract_*_lines: out;  hard_wrap_lines: wrapped
    stack,    \* extract_hwpx_lines: the traversal stack (top = last)
    buf,      \* extract_hwpx_lines: buf;  _iter_records: the byte buffer
    cur,      \* hard_wrap_lines: s;  _iter_records: off
    flushes,  \* history: the elements whose visit called flush(), in order
    written,  \* what main wrote: <<>> or <<[to, obj]>>
    err       \* the exception that ended the run, "" if none

vars == <<pc, file, args, kind, queue, opened, out, stack, buf, cur,
          flushes, written, err>>

----------------------------------------------------------------------------
(* Python built-ins on sequences                                           *)

Min(a, b) == IF a <= b THEN a ELSE b

\* s[a:b] with 0-based, non-negative a and b
PySlice(s, a, b) ==
    LET hi == Min(b, Len(s))
    IN  IF hi <= a THEN <<>> ELSE [i \in 1..(hi - a) |-> s[a + i]]

\* s.startswith(p)
StartsWith(s, p) ==
    /\ Len(p) <= Len(s)
    /\ \A i \in 1..Len(p) : s[i] = p[i]

\* s.endswith(p)
EndsWith(s, p) ==
    /\ Len(p) <= Len(s)
    /\ \A i \in 1..Len(p) : s[Len(s) - Len(p) + i] = p[i]

\* list(reversed(s))
Reverse(s) == [i \in 1..Len(s) |-> s[Len(s) + 1 - i]]

\* "".join(parts)
RECURSIVE Join(_)
Join(parts) ==
    IF parts = <<>> THEN <<>> ELSE Head(parts) \o Join(Tail(parts))

\* [x for x in s if x in keep]
RECURSIVE Filter(_, _)
Filter(s, keep) ==
    IF s = <<>> THEN <<>>
    ELSE (IF Head(s) \in keep THEN <<Head(s)>> ELSE <<>>) \o Filter(Tail(s), keep)

\* a < b on str: code point by code point, a proper prefix is smaller
LexLess(a, b) ==
    \E k \in 1..(Min(Len(a), Len(b)) + 1) :
        /\ \A i \in 1..(k - 1) : a[i] = b[i]
        /\ \/ k > Len(a) /\ k <= Len(b)
           \/ k <= Len(a) /\ k <= Len(b) /\ a[k] < b[k]

\* sorted(s) / list.sort(): stable; less is the strict order of the keys,
\* as the set of the pairs <<a, b>> of elements with key(a) < key(b)
StableSort(s, less) ==
    LET n == Len(s)
        rank(i) == 1 + Cardinality({j \in 1..n :
                        \/ <<s[j], s[i]>> \in less
                        \/ <<s[i], s[j]>> \notin less /\ j < i})
    IN  [k \in 1..n |-> s[CHOOSE i \in 1..n : rank(i) = k]]

\* str.lower() on the ASCII letters (the only cased letters the inputs hold)
Lower(s) == [i \in 1..Len(s) |-> IF s[i] \in 65..90 THEN s[i] + 32 ELSE s[i]]

\* str.isspace() per character: what str.strip() removes
IsSpace(c) ==
    c \in (9..13) \cup (28..32) \cup {133, 160, 5760, 8232, 8233, 8239, 8287, 12288}
          \cup (8192..8202)

\* s.lstrip()
RECURSIVE LStrip(_)
LStrip(s) == IF s # <<>> /\ IsSpace(Head(s)) THEN LStrip(Tail(s)) ELSE s

\* s.rstrip()
RStrip(s) == Reverse(LStrip(Reverse(s)))

\* s.strip()
Strip(s) == RStrip(LStrip(s))

\* s.split(sep) for a one-character sep: the fragments, empty ones included
RECURSIVE Split(_, _)
Split(s, sep) ==
    IF \A i \in 1..Len(s) : s[i] # sep THEN <<s>>
    ELSE LET k == CHOOSE i \in 1..Len(s) :
                      s[i] = sep /\ \A j \in 1..(i - 1) : s[j] # sep
         IN  <<SubSeq(s, 1, k - 1)>> \o Split(SubSeq(s, k + 1, Len(s)), sep)

\* s.replace(a, b) for one-character a and b
Replace(s, a, b) == [i \in 1..Len(s) |-> IF s[i] = a THEN b ELSE s[i]]

\* s.rfind(p, 0, end): the 0-based index of the last occurrence of p that
\* lies wholly inside s[0:end], -1 if there is none
RFind(s, p, end) ==
    LET lim  == Min(end, Len(s))
        hits == {i \in 0..(lim - Len(p)) :
                    \A k \in 1..Len(p) : s[i + k] = p[k]}
    IN  IF hits = {} THEN -1
        ELSE CHOOSE i \in hits : \A j \in hits : j <= i

----------------------------------------------------------------------------
(* detect_container                                                        *)

OLE_SIG == <<208, 207, 17, 224>>

ZIP_SIG == <<80, 75, 3, 4>>

\* pathlib's PurePath.suffix of the final path component
Suffix(name) ==
    LET dots == {i \in 1..Len(name) : name[i] = 46}
        i    == CHOOSE d \in dots : \A e \in dots : e <= d
    IN  IF dots = {} THEN <<>>
        ELSE IF 1 < i /\ i < Len(name) THEN SubSeq(name, i, Len(name))
        ELSE <<>>

\* the value returned for an existing regular file
detect_container_ext_first(f) ==
    LET head == PySlice(f.bytes, 0, 8)
        ext  == Lower(Suffix(f.name))
    IN  IF ext = <<46, 104, 119, 112>> THEN "HWP5"
        ELSE IF ext = <<46, 104, 119, 112, 120>> THEN "HWPX"
        ELSE IF StartsWith(head, OLE_SIG) THEN "HWP5"
        ELSE IF StartsWith(head, ZIP_SIG) THEN "HWPX"
        ELSE "UNKNOWN"

detect_container(f) ==
    LET head == PySlice(f.bytes, 0, 8)
        ext  == Lower(Suffix(f.name))
    IN  IF StartsWith(head, OLE_SIG) THEN "HWP5"
        ELSE IF StartsWith(head, ZIP_SIG) THEN "HWPX"
        ELSE IF ext = <<46, 104, 119, 112>> THEN "HWP5"
        ELSE IF ext = <<46, 104, 119, 112, 120>> THEN "HWPX"
        ELSE "UNKNOWN"

----------------------------------------------------------------------------
(* HWP (.hwp): file header, record stream, paragraph text                  *)

HWPTAG_PARA_TEXT == 66

\* struct.unpack("<I", b[off:off+4]) as used for sizes and the version.
\* TLC's integers are 32-bit signed: a word of 2^30 or more is represented
\* by 2^30, which exceeds every buffer length of the model.
U32(b, off) ==
    IF b[off + 4] >= 64 THEN 1073741824
    ELSE b[off + 1] + 256 * b[off + 2] + 65536 * b[off + 3] + 16777216 * b[off + 4]

\* bit k of the little-endian 32-bit word at b[off:off+4]
WordBit(b, off, k) == (b[off + 1 + (k \div 8)] \div (2 ^ (k % 8))) % 2 = 1

\* _read_fileheader on the raw bytes of the FileHeader stream:
\* error is "ValueError" when they are fewer than 48
_read_fileheader_bit2(raw) ==
    IF Len(raw) < 48
    THEN [error |-> "ValueError", compressed |-> FALSE, encrypted |-> FALSE,
          ver |-> 0]
    ELSE [error |-> "",
          compressed |-> WordBit(raw, 36, 0),
          encrypted  |-> WordBit(raw, 36, 2),
          ver        |-> U32(raw, 32)]

_read_fileheader_len40(raw) ==
    IF Len(raw) < 40
    THEN [error |-> "ValueError", compressed |-> FALSE, encrypted |-> FALSE,
          ver |-> 0]
    ELSE [error |-> "",
          compressed |-> WordBit(raw, 36, 0),
          encrypted  |-> WordBit(raw, 36, 1),
          ver        |-> U32(raw, 32)]

_read_fileheader(raw) ==
    IF Len(raw) < 48
    THEN [error |-> "ValueError", compressed |-> FALSE, encrypted |-> FALSE,
          ver |-> 0]
    ELSE [error |-> "",
          compressed |-> WordBit(raw, 36, 0),
          encrypted  |-> WordBit(raw, 36, 1),
          ver        |-> U32(raw, 32)]

\* hdr & 0x3FF of the header word at b[off:off+4]
RecTag(b, off) == (b[off + 1] + 256 * b[off + 2]) % 1024

\* (hdr >> 20) & 0xFFF of the header word at b[off:off+4]
RecSize_next_bits(b, off) ==
    ((b[off + 2] + 256 * b[off + 3] + 65536 * b[off + 4]) \div 4) % 4096

RecSize(b, off) == ((b[off + 3] + 256 * b[off + 4]) \div 16) % 4096

\* One iteration of the loop of _iter_records at offset off (0-based):
\* [stop |-> TRUE] when the loop ends without yielding, otherwise the
\* yielded (tag, payload) and the offset after it.
RecordAt_no_skip(b, off) ==
    LET n     == Len(b)
        tag   == RecTag(b, off)
        size0 == RecSize(b, off)
        esc   == size0 = 4095
        off1  == off + 4
        off2  == off1
        size  == IF esc THEN U32(b, off1) ELSE size0
    IN  IF off + 4 > n THEN [stop |-> TRUE]
        ELSE IF esc /\ off1 + 4 > n THEN [stop |-> TRUE]
        ELSE IF off2 + size > n
             THEN [stop |-> FALSE, tag |-> tag,
                   payload |-> PySlice(b, off2, n), off |-> n]
             ELSE [stop |-> FALSE, tag |-> tag,
                   payload |-> PySlice(b, off2, off2 + size), off |-> off2 + size]

RecordAt_drops_partial(b, off) ==
    LET n     == Len(b)
        tag   == RecTag(b, off)
        size0 == RecSize(b, off)
        esc   == size0 = 4095
        off1  == off + 4
        off2  == IF esc THEN off1 + 4 ELSE off1
        size  == IF esc THEN U32(b, off1) ELSE size0
    IN  IF off + 4 > n THEN [stop |-> TRUE]
        ELSE IF esc /\ off1 + 4 > n THEN [stop |-> TRUE]
        ELSE IF off2 + size > n THEN [stop |-> TRUE]
        ELSE [stop |-> FALSE, tag |-> tag,
              payload |-> PySlice(b, off2, off2 + size), off |-> off2 + size]

RecordAt_escape_yields(b, off) ==
    LET n     == Len(b)
        tag   == RecTag(b, off)
        size0 == RecSize(b, off)
        esc   == size0 = 4095
        off1  == off + 4
        off2  == IF esc THEN off1 + 4 ELSE off1
        size  == IF esc THEN U32(b, off1) ELSE size0
    IN  IF off + 4 > n THEN [stop |-> TRUE]
        ELSE IF esc /\ off1 + 4 > n
             THEN [stop |-> FALSE, tag |-> tag, payload |-> <<>>, off |-> n]
        ELSE IF off2 + size > n
             THEN [stop |-> FALSE, tag |-> tag,
                   payload |-> PySlice(b, off2, n), off |-> n]
             ELSE [stop |-> FALSE, tag |-> tag,
                   payload |-> PySlice(b, off2, off2 + size), off |-> off2 + size]

RecordAt(b, off) ==
    LET n     == Len(b)
        tag   == RecTag(b, off)
        size0 == RecSize(b, off)
        esc   == size0 = 4095
        off1  == off + 4
        off2  == IF esc THEN off1 + 4 ELSE off1
        size  == IF esc THEN U32(b, off1) ELSE size0
    IN  IF off + 4 > n THEN [stop |-> TRUE]
        ELSE IF esc /\ off1 + 4 > n THEN [stop |-> TRUE]
        ELSE IF off2 + size > n
             THEN [stop |-> FALSE, tag |-> tag,
                   payload |-> PySlice(b, off2, n), off |-> n]
             ELSE [stop |-> FALSE, tag |-> tag,
                   payload |-> PySlice(b, off2, off2 + size), off |-> off2 + size]

\* list(_iter_records(b)) from offset off on
RECURSIVE RecordsFrom(_, _)
RecordsFrom(b, off) ==
    LET r == RecordAt(b, off)
    IN  IF r.stop THEN <<>>
        ELSE <<[tag |-> r.tag, payload |-> r.payload]>> \o RecordsFrom(b, r.off)

_iter_records(b) == RecordsFrom(b, 0)

\* payload.decode("utf-16le", errors="ignore") from byte index i (1-based)
RECURSIVE Utf16From(_, _)
Utf16From(b, i) ==
    IF i + 1 > Len(b) THEN <<>>
    ELSE LET u  == b[i] + 256 * b[i + 1]
             lo == IF i + 3 <= Len(b) THEN b[i + 2] + 256 * b[i + 3] ELSE 0
         IN  IF u \in 55296..56319
             THEN IF lo \in 56320..57343
                  THEN <<65536 + (u - 55296) * 1024 + (lo - 56320)>>
                           \o Utf16From(b, i + 4)
                  ELSE Utf16From(b, i + 2)
             ELSE IF u \in 56320..57343 THEN Utf16From(b, i + 2)
             ELSE <<u>> \o Utf16From(b, i + 2)

utf16le_decode(b) == Utf16From(b, 1)

\* the cleaning of one fragment: control characters other than tab become
\* a space, then strip()
CleanFragment(ln) ==
    Strip([i \in 1..Len(ln) |-> IF ln[i] >= 32 \/ ln[i] = 9 THEN ln[i] ELSE 32])

\* the lines one tag-66 payload appends to out
ParaTextLines_no_cr(payload) ==
    LET frags == Split(utf16le_decode(payload), 10)
        clean == [i \in 1..Len(frags) |-> CleanFragment(frags[i])]
    IN  Filter(clean, {clean[i] : i \in 1..Len(clean)} \ {<<>>})

ParaTextLines(payload) ==
    LET s     == Replace(utf16le_decode(payload), 13, 10)
        frags == Split(s, 10)
        clean == [i \in 1..Len(frags) |-> CleanFragment(frags[i])]
    IN  Filter(clean, {clean[i] : i \in 1..Len(clean)} \ {<<>>})

\* the lines one yielded record appends to out
RecordLines(rec) ==
    IF rec.tag = HWPTAG_PARA_TEXT THEN ParaTextLines(rec.payload) ELSE <<>>

\* the lines of all records of one decoded stream
RECURSIVE LinesOfRecords(_)
LinesOfRecords(recs) ==
    IF recs = <<>> THEN <<>>
    ELSE RecordLines(Head(recs)) \o LinesOfRecords(Tail(recs))

\* _zlib_if_needed: a stored stream is [raw, inflates, inflated]: inflates
\* tells whether zlib.decompress(raw) returns (inflated) or raises
_zlib_if_needed(stored, expect) ==
    IF ~expect THEN stored.raw
    ELSE IF ~stored.inflates THEN stored.raw
    ELSE stored.inflated

\* int("".join(ch for ch in name if ch.isdigit()) or "0")
RECURSIVE DigitsValue(_, _)
DigitsValue(digits, acc) ==
    IF digits = <<>> THEN acc
    ELSE DigitsValue(Tail(digits), 10 * acc + (Head(digits) - 48))

SectionKey(e) == DigitsValue(Filter(e[2], 48..57), 0)

\* the order of two entries under entries.sort(key=...)
SectionKeyLess_lexical(a, b) == LexLess(a[2], b[2])

SectionKeyLess(a, b) == SectionKey(a) < SectionKey(b)

\* the filtered and sorted entries of extract_hwp_lines
HwpEntries(listing) ==
    LET body == {e \in {listing[i] : i \in 1..Len(listing)} :
                    /\ Len(e) = 2
                    /\ e[1] = <<66, 111, 100, 121, 84, 101, 120, 116>>
                    /\ StartsWith(e[2], <<83, 101, 99, 116, 105, 111, 110>>)}
    IN  StableSort(Filter(listing, body),
                   {<<a, b>> \in body \X body : SectionKeyLess(a, b)})

\* the body of the for loop of extract_hwp_lines for one entry
HwpStreamLines(stored, compressed) ==
    LinesOfRecords(_iter_records(_zlib_if_needed(stored, compressed)))

----------------------------------------------------------------------------
(* HWPX (.hwpx): section selection, flattening traversal                   *)

\* "{ns}local" -> "local": tag.rsplit("}", 1)[1] when "}" occurs in tag
_lname(tag) ==
    LET closes == {i \in 1..Len(tag) : tag[i] = 125}
        i      == CHOOSE c \in closes : \A d \in closes : d <= c
    IN  IF closes = {} THEN tag ELSE SubSeq(tag, i + 1, Len(tag))

\* "p","para","paragraph","line","li","item","title","subtitle","caption"
_PARA_END_with_t ==
    { <<116>>, <<112>>, <<112, 97, 114, 97>>,
      <<112, 97, 114, 97, 103, 114, 97, 112, 104>>,
      <<108, 105, 110, 101>>, <<108, 105>>, <<105, 116, 101, 109>>,
      <<116, 105, 116, 108, 101>>,
      <<115, 117, 98, 116, 105, 116, 108, 101>>,
      <<99, 97, 112, 116, 105, 111, 110>> }

_PARA_END ==
    { <<112>>, <<112, 97, 114, 97>>,
      <<112, 97, 114, 97, 103, 114, 97, 112, 104>>,
      <<108, 105, 110, 101>>, <<108, 105>>, <<105, 116, 101, 109>>,
      <<116, 105, 116, 108, 101>>,
      <<115, 117, 98, 116, 105, 116, 108, 101>>,
      <<99, 97, 112, 116, 105, 111, 110>> }

\* "br","linebreak"
_BR == { <<98, 114>>, <<108, 105, 110, 101, 98, 114, 101, 97, 107>> }

\* "tbl","table","tr","row","tc","cell","th","thead","tbody","tfoot"
_TABLE_BREAK ==
    { <<116, 98, 108>>, <<116, 97, 98, 108, 101>>, <<116, 114>>,
      <<114, 111, 119>>, <<116, 99>>, <<99, 101, 108, 108>>, <<116, 104>>,
      <<116, 104, 101, 97, 100>>, <<116, 98, 111, 100, 121>>,
      <<116, 102, 111, 111, 116>> }

\* re.sub(r"[ \t\u00A0]{2,}", " ", line): every maximal run of two or more
\* spaces, tabs and no-break spaces becomes one space
RECURSIVE CollapseRuns(_)
CollapseRuns_one(s) ==
    LET blank(c) == c \in {32, 9, 160}
        run == CHOOSE k \in 0..Len(s) :
                   /\ \A i \in 1..k : blank(s[i])
                   /\ k < Len(s) => ~blank(s[k + 1])
    IN  IF s = <<>> THEN <<>>
        ELSE IF run >= 1 THEN <<32>> \o CollapseRuns(SubSeq(s, run + 1, Len(s)))
        ELSE <<Head(s)>> \o CollapseRuns(Tail(s))

CollapseRuns(s) ==
    LET blank(c) == c \in {32, 9, 160}
        run == CHOOSE k \in 0..Len(s) :
                   /\ \A i \in 1..k : blank(s[i])
                   /\ k < Len(s) => ~blank(s[k + 1])
    IN  IF s = <<>> THEN <<>>
        ELSE IF run >= 2 THEN <<32>> \o CollapseRuns(SubSeq(s, run + 1, Len(s)))
        ELSE <<Head(s)>> \o CollapseRuns(Tail(s))

\* the line flush() makes of the buffer: <<>> when it appends nothing
FlushLine_no_strip(b) == CollapseRuns(Join(b))

FlushLine(b) == Strip(CollapseRuns(Join(b)))

\* the caller of the flush() that follows the traversal loop
EndMark == [tag |-> <<>>, text |-> <<>>, tail |-> <<>>, kids |-> <<>>]

\* flush() on the traversal state t = [stack, buf, out, flushes]; by is the
\* element whose visit calls it (recorded in the history only)
flush_once(t, by) ==
    LET line == FlushLine(t.buf)
        seen == {t.out[i] : i \in 1..Len(t.out)}
    IN  [t EXCEPT !.out = IF line # <<>> /\ line \notin seen
                          THEN Append(@, line) ELSE @,
                  !.buf = <<>>,
                  !.flushes = Append(@, by)]

flush(t, by) ==
    LET line == FlushLine(t.buf)
    IN  [t EXCEPT !.out = IF line # <<>> THEN Append(@, line) ELSE @,
                  !.buf = <<>>,
                  !.flushes = Append(@, by)]

\* One iteration of the traversal loop: pop a node and handle it
Visit_no_tail(t) ==
    LET node  == t.stack[Len(t.stack)]
        t0    == [t EXCEPT !.stack = SubSeq(@, 1, Len(@) - 1)]
        t1    == IF node.text # <<>>
                 THEN [t0 EXCEPT !.buf = Append(@, node.text)] ELSE t0
        lname == Lower(_lname(node.tag))
        t2    == IF lname \in _BR THEN flush(t1, node) ELSE t1
        t3    == IF lname \in _TABLE_BREAK THEN flush(t2, node) ELSE t2
        t4    == [t3 EXCEPT !.stack = @ \o Reverse(node.kids)]
    IN  IF lname \in _PARA_END THEN flush(t4, node) ELSE t4

Visit(t) ==
    LET node  == t.stack[Len(t.stack)]
        t0    == [t EXCEPT !.stack = SubSeq(@, 1, Len(@) - 1)]
        t1    == IF node.text # <<>>
                 THEN [t0 EXCEPT !.buf = Append(@, node.text)] ELSE t0
        lname == Lower(_lname(node.tag))
        t2    == IF lname \in _BR THEN flush(t1, node) ELSE t1
        t3    == IF lname \in _TABLE_BREAK THEN flush(t2, node) ELSE t2
        t4    == [t3 EXCEPT !.stack = @ \o Reverse(node.kids)]
        t5    == IF node.tail # <<>>
                 THEN [t4 EXCEPT !.buf = Append(@, node.tail)] ELSE t4
    IN  IF lname \in _PARA_END THEN flush(t5, node) ELSE t5

\* the while loop of the traversal, run to its end
RECURSIVE Walk(_)
Walk(t) == IF t.stack = <<>> THEN t ELSE Walk(Visit(t))

\* the state the traversal of one parsed section starts in
SectionStart(root, sofar) ==
    [stack |-> <<root>>, buf |-> <<>>, out |-> sofar, flushes |-> <<>>]

\* the part of the for loop after a successful parse: out after the section
SectionLines(root, sofar) ==
    flush(Walk(SectionStart(root, sofar)), EndMark).out

\* one iteration of the for loop over the sections: a part that cannot be
\* read or parsed is skipped (try / except / continue)
SectionResult_clears(part, sofar) ==
    IF part.ok THEN SectionLines(part.root, sofar) ELSE <<>>

SectionResult(part, sofar) ==
    IF part.ok THEN SectionLines(part.root, sofar) ELSE sofar

\* the section names extract_hwpx_lines iterates over
HwpxSections(namelist) ==
    LET isSection(n) ==
            /\ StartsWith(n, <<67, 111, 110, 116, 101, 110, 116, 115, 47,
                               115, 101, 99, 116, 105, 111, 110>>)
            /\ EndsWith(n, <<46, 120, 109, 108>>)
        names    == {namelist[i] : i \in 1..Len(namelist)}
        less     == {<<a, b>> \in names \X names : LexLess(a, b)}
        sections == StableSort(Filter(namelist, {n \in names : isSection(n)}),
                               less)
        xmls     == StableSort(Filter(namelist,
                        {n \in names : EndsWith(Lower(n), <<46, 120, 109, 108>>)}),
                               less)
    IN  IF sections # <<>> THEN sections ELSE xmls

----------------------------------------------------------------------------
(* hard_wrap_lines                                                         *)

\* ". ", ") ", "] ", "· ", "• ", ", " in the order the loop tries them
WrapDelims ==
    << <<46, 32>>, <<41, 32>>, <<93, 32>>, <<183, 32>>, <<8226, 32>>,
       <<44, 32>> >>

\* WrapCut taking the hard cut only when nothing was found (cut < 0)
WrapCut_zero(s, width) ==
    LET cut0  == RFind(s, <<32>>, width)
        found == {k \in 1..Len(WrapDelims) : RFind(s, WrapDelims[k], width) > 0}
        first == CHOOSE k \in found : \A j \in found : k <= j
        cut1  == IF 5 * cut0 < 3 * width /\ found # {}
                 THEN RFind(s, WrapDelims[first], width) + Len(WrapDelims[first]) - 1
                 ELSE cut0
    IN  IF cut1 < 0 THEN width ELSE cut1

\* WrapCut cutting after the space of the delimiter (pos + len(p))
WrapCut_after_space(s, width) ==
    LET cut0  == RFind(s, <<32>>, width)
        found == {k \in 1..Len(WrapDelims) : RFind(s, WrapDelims[k], width) > 0}
        first == CHOOSE k \in found : \A j \in found : k <= j
        cut1  == IF 5 * cut0 < 3 * width /\ found # {}
                 THEN RFind(s, WrapDelims[first], width) + Len(WrapDelims[first])
                 ELSE cut0
    IN  IF cut1 <= 0 THEN width ELSE cut1

\* the cut position chosen by one iteration of the while loop, len(s) > width
WrapCut(s, width) ==
    LET cut0  == RFind(s, <<32>>, width)
        found == {k \in 1..Len(WrapDelims) : RFind(s, WrapDelims[k], width) > 0}
        first == CHOOSE k \in found : \A j \in found : k <= j
        cut1  == IF 5 * cut0 < 3 * width /\ found # {}
                 THEN RFind(s, WrapDelims[first], width) + Len(WrapDelims[first]) - 1
                 ELSE cut0
    IN  IF cut1 <= 0 THEN width ELSE cut1

\* one iteration of the while loop: the line appended and the new s
WrapStep_no_lstrip(s, width) ==
    LET cut == WrapCut(s, width)
    IN  [piece |-> RStrip(PySlice(s, 0, cut)),
         rest  |-> PySlice(s, cut, Len(s))]

WrapStep_skip_cut(s, width) ==
    LET cut == WrapCut(s, width)
    IN  [piece |-> RStrip(PySlice(s, 0, cut)),
         rest  |-> LStrip(PySlice(s, cut + 1, Len(s)))]

WrapStep(s, width) ==
    LET cut == WrapCut(s, width)
    IN  [piece |-> RStrip(PySlice(s, 0, cut)),
         rest  |-> LStrip(PySlice(s, cut, Len(s)))]

\* the condition of the while loop
NeedsWrap_one_more(s, width) == Len(s) > width + 1

NeedsWrap(s, width) == Len(s) > width

\* the lines one input line contributes
RECURSIVE WrapLine(_, _)
WrapLine(s, width) ==
    IF NeedsWrap(s, width)
    THEN <<WrapStep(s, width).piece>> \o WrapLine(WrapStep(s, width).rest, width)
    ELSE IF s # <<>> THEN <<s>> ELSE <<>>

RECURSIVE WrapAll(_, _)
WrapAll(lines, width) ==
    IF lines = <<>> THEN <<>>
    ELSE WrapLine(Head(lines), width) \o WrapAll(Tail(lines), width)

hard_wrap_lines(lines, width) ==
    IF width <= 0 THEN lines ELSE WrapAll(lines, width)

----------------------------------------------------------------------------
(* Inputs of main: files and command lines                                 *)

\* the largest number of body streams / archive parts of an input container
MaxParts == 3

\* permutations of the subsets of S with at most n elements, as sequences
RECURSIVE Arrangements(_, _)
Arrangements(S, n) ==
    IF n = 0 THEN {<<>>}
    ELSE LET shorter == Arrangements(S, n - 1)
         IN  shorter \cup
             UNION {{Append(q, x) : x \in S \ {q[i] : i \in 1..Len(q)}} :
                        q \in {r \in shorter : Len(r) = n - 1}}

\* an element: ET.Element with tag, text, tail and children
Node(tag, text, tail, kids) ==
    [tag |-> tag, text |-> text, tail |-> tail, kids |-> kids]

\* a record as it lies in a stream: header word (tag, level, size), payload
EncodeRecord(tag, level, payload) ==
    LET n == Len(payload)
        w == tag + 1024 * level
    IN  << w % 256, (w \div 256) % 256,
           ((w \div 65536) % 16) + 16 * (n % 16), n \div 16 >> \o payload

\* the same record with its size in the escaped form: 0xFFF in the header
\* word, then the size as a word of its own
EncodeRecordLong(tag, level, payload) ==
    LET n == Len(payload)
        w == tag + 1024 * level
    IN  << w % 256, (w \div 256) % 256, ((w \div 65536) % 16) + 240, 255,
           n % 256, (n \div 256) % 256, 0, 0 >> \o payload

\* text.encode("utf-16le") for code points below 0x10000
RECURSIVE EncodeUtf16(_)
EncodeUtf16(text) ==
    IF text = <<>> THEN <<>>
    ELSE <<Head(text) % 256, Head(text) \div 256>> \o EncodeUtf16(Tail(text))

\* the names of the body streams the input compound files may hold:
\* "Section1", "Section2", "Section10", "Section", "Section02"
StreamNames ==
    { <<83, 101, 99, 116, 105, 111, 110, 49>>,
      <<83, 101, 99, 116, 105, 111, 110, 50>>,
      <<83, 101, 99, 116, 105, 111, 110, 49, 48>>,
      <<83, 101, 99, 116, 105, 111, 110>>,
      <<83, 101, 99, 116, 105, 111, 110, 48, 50>> }

\* the paragraph text of a body stream: its name without "Sect", so that a
\* line tells the stream it comes from
StreamText(name) == SubSeq(name, 5, Len(name))

\* a body stream as stored: plain records, or deflated records
StoredStream(name, deflated) ==
    LET records == EncodeRecord(67, 0, <<1, 0>>)
                       \o EncodeRecord(66, 1, EncodeUtf16(StreamText(name)))
    IN  IF deflated
        THEN [raw |-> <<120, 156>> \o name, inflates |-> TRUE, inflated |-> records]
        ELSE [raw |-> records, inflates |-> FALSE, inflated |-> <<>>]

\* the FileHeader stream: 32 bytes of signature, version 5.0.3.0, the flag
\* word, and padding up to length n
FileHeaderBytes(flags, n) ==
    [i \in 1..n |-> IF i = 34 THEN 3 ELSE IF i = 36 THEN 5
                    ELSE IF i = 37 THEN flags ELSE 0]

\* the directory of a compound file: FileHeader, the BodyText storage, the
\* body streams in the order given, and a ViewText stream that is no body
OleDirectory(names, deflated) ==
    << [path |-> << <<70, 105, 108, 101, 72, 101, 97, 100, 101, 114>> >>],
       [path |-> << <<66, 111, 100, 121, 84, 101, 120, 116>> >>] >>
    \o [i \in 1..Len(names) |->
           [path |-> << <<66, 111, 100, 121, 84, 101, 120, 116>>, names[i] >>]]
    \o << [path |-> << <<86, 105, 101, 119, 84, 101, 120, 116>>,
                       <<83, 101, 99, 116, 105, 111, 110, 48>> >>] >>

NoContent ==
    [type |-> "other", header |-> <<>>, dir |-> <<>>, deflated |-> FALSE,
     parts |-> <<>>]

OleContent(flags, hlen, names, deflated) ==
    [NoContent EXCEPT !.type = "ole", !.header = FileHeaderBytes(flags, hlen),
                      !.dir = OleDirectory(names, deflated),
                      !.deflated = deflated]

\* ole.listdir(streams=True, storages=True)
OleListdir(content) == [i \in 1..Len(content.dir) |-> content.dir[i].path]

\* ole.openstream("/".join(e)).read() for a body stream e
OleRead(content, e) == StoredStream(e[2], content.deflated)

\* the names of the parts the input archives may hold:
\* "Contents/section1.xml", "Contents/section2.xml",
\* "Contents/section10.xml", "Contents/header.xml", "META-INF/a.XML"
PartNames ==
    { <<67, 111, 110, 116, 101, 110, 116, 115, 47, 115, 101, 99, 116, 105,
        111, 110, 49, 46, 120, 109, 108>>,
      <<67, 111, 110, 116, 101, 110, 116, 115, 47, 115, 101, 99, 116, 105,
        111, 110, 50, 46, 120, 109, 108>>,
      <<67, 111, 110, 116, 101, 110, 116, 115, 47, 115, 101, 99, 116, 105,
        111, 110, 49, 48, 46, 120, 109, 108>>,
      <<67, 111, 110, 116, 101, 110, 116, 115, 47, 104, 101, 97, 100, 101,
        114, 46, 120, 109, 108>>,
      <<77, 69, 84, 65, 45, 73, 78, 70, 47, 97, 46, 88, 77, 76>> }

\* the tree a part parses to.  Its first text is the part's name without
\* directory and extension ("section1", "header", "a"), so that a line
\* tells its part; the shapes are a paragraph, loose text ending in no
\* boundary, and a two-cell row
PartTree(name) ==
    LET id == SubSeq(name, 10, Len(name) - 4)
    IN  IF Len(name) = 21
        THEN Node(<<115, 101, 99>>, <<>>, <<>>,
                  << Node(<<123, 110, 125, 112>>, id, <<>>, <<>>) >>)
        ELSE IF Len(name) = 22
        THEN Node(<<115, 101, 99>>, id \o <<32>>, <<>>,
                  << Node(<<116>>, <<120, 32, 32, 121>>, <<>>, <<>>) >>)
        ELSE Node(<<116, 114>>, <<>>, <<>>,
                  << Node(<<116, 99>>, id, <<>>, <<>>),
                     Node(<<116, 99>>, <<122>>, <<>>, <<>>) >>)

\* an archive: its parts in directory order; ok tells whether
\* ET.fromstring(z.read(name)) returns (root) or raises
ZipContent(names, broken) ==
    [NoContent EXCEPT !.type = "zip",
        !.parts = [i \in 1..Len(names) |->
                      [name |-> names[i], ok |-> names[i] \notin broken,
                       root |-> PartTree(names[i])]]]

\* z.namelist()
ZipNamelist(content) == [i \in 1..Len(content.parts) |-> content.parts[i].name]

\* the part called name
ZipPart(content, name) ==
    content.parts[CHOOSE i \in 1..Len(content.parts) :
                      content.parts[i].name = name]

\* extract_hwpx_lines on an archive, as one function
RECURSIVE HwpxLinesFrom(_, _, _)
HwpxLinesFrom(content, names, sofar) ==
    IF names = <<>> THEN sofar
    ELSE HwpxLinesFrom(content, Tail(names),
                       SectionResult(ZipPart(content, Head(names)), sofar))

extract_hwpx_lines(content) ==
    HwpxLinesFrom(content, HwpxSections(ZipNamelist(content)), <<>>)

\* "x.hwp", "x.HWP", "x.hwpx", "x.HwpX", "x.txt", "x", ".hwp", "x.hwp."
FileNames ==
    { <<120, 46, 104, 119, 112>>, <<120, 46, 72, 87, 80>>,
      <<120, 46, 104, 119, 112, 120>>, <<120, 46, 72, 119, 112, 88>>,
      <<120, 46, 116, 120, 116>>, <<120>>, <<46, 104, 119, 112>>,
      <<120, 46, 104, 119, 112, 46>> }

\* the first bytes of a compound file and of an archive with members
OleMagic == <<208, 207, 17, 224, 161, 177, 26, 225, 0>>

ZipMagic == <<80, 75, 3, 4, 20, 0, 0, 0, 8>>

\* first bytes of files that are neither: empty, a cut signature, a shifted
\* signature, the end record an archive without members starts with, "%PDF-"
OtherHeads ==
    { <<>>, <<208, 207, 17>>, <<0, 208, 207, 17, 224>>, <<80, 75, 5, 6>>,
      <<37, 80, 68, 70, 45>> }

InputFile(name, bytes, content) ==
    [name |-> name, exists |-> TRUE, bytes |-> bytes, content |-> content]

\* every name with every kind of first bytes (one content each), a missing
\* file, and under one name every compound file and every archive
Files ==
    {InputFile(n, OleMagic, OleContent(1, 48, <<>>, TRUE)) : n \in FileNames}
    \cup {InputFile(n, ZipMagic, ZipContent(<<>>, {})) : n \in FileNames}
    \cup {InputFile(n, h, NoContent) : n \in FileNames, h \in OtherHeads}
    \cup {[InputFile(<<120, 46, 104, 119, 112>>, <<>>, NoContent)
              EXCEPT !.exists = FALSE]}
    \cup {InputFile(<<120, 46, 104, 119, 112>>, OleMagic,
                    OleContent(flags, hlen, names, deflated)) :
              flags \in 0..3, hlen \in {40, 48},
              names \in Arrangements(StreamNames, MaxParts),
              deflated \in BOOLEAN}
    \cup {InputFile(<<120, 46, 104, 119, 112, 120>>, ZipMagic,
                    ZipContent(names, broken)) :
              names \in Arrangements(PartNames, MaxParts),
              broken \in SUBSET PartNames}

\* the command lines: --out given or not, --hard-wrap absent, 0 or 4; and
\* whether the olefile module could be imported (_HAS_OLE)
ArgSets == [out : BOOLEAN, hard_wrap : {0, 4}, has_ole : BOOLEAN]

----------------------------------------------------------------------------
(* main                                                                    *)

Init ==
    /\ file \in Files
    /\ args \in ArgSets
    /\ pc = "main"
    /\ kind = ""
    /\ queue = <<>>
    /\ opened = <<>>
    /\ out = <<>>
    /\ stack = <<>>
    /\ buf = <<>>
    /\ cur = <<>>
    /\ flushes = <<>>
    /\ written = <<>>
    /\ err = ""

Fail(e) ==
    /\ pc' = "failed"
    /\ err' = e
    /\ UNCHANGED <<file, args, kind, queue, opened, out, stack, buf, cur,
                   flushes, written>>

\* extract_any_lines: what follows for the detected kind
Dispatch_fallthrough(k) ==
    IF k = "HWP5" THEN "extract_hwp_lines" ELSE "extract_hwpx_lines"

Dispatch(k) ==
    IF k = "HWP5" THEN "extract_hwp_lines"
    ELSE IF k = "HWPX" THEN "extract_hwpx_lines"
    ELSE "ValueError"

\* extract_any_lines: kind = detect_container(path)
Detect ==
    /\ pc = "main"
    /\ IF ~file.exists THEN Fail("FileNotFoundError")
       ELSE /\ kind' = detect_container(file)
            /\ pc' = "dispatch"
            /\ UNCHANGED <<file, args, queue, opened, out, stack, buf, cur,
                           flushes, written, err>>

\* extract_any_lines: neither "HWP5" nor "HWPX"
Unknown ==
    /\ pc = "dispatch"
    /\ Dispatch(kind) = "ValueError"
    /\ Fail("ValueError")

\* extract_hwp_lines up to the for loop
OpenHwp ==
    /\ pc = "dispatch"
    /\ Dispatch(kind) = "extract_hwp_lines"
    /\ LET hdr == _read_fileheader(file.content.header)
       IN  IF ~args.has_ole THEN Fail("RuntimeError")
           ELSE IF file.content.type # "ole" THEN Fail("OSError")
           ELSE IF hdr.error # "" THEN Fail(hdr.error)
           ELSE IF hdr.encrypted THEN Fail("RuntimeError")
           ELSE /\ queue' = HwpEntries(OleListdir(file.content))
                /\ pc' = "hwp_loop"
                /\ UNCHANGED <<file, args, kind, opened, out, stack, buf,
                               cur, flushes, written, err>>

\* one iteration of the for loop of extract_hwp_lines
HwpStream ==
    /\ pc = "hwp_loop"
    /\ queue # <<>>
    /\ LET e   == Head(queue)
           hdr == _read_fileheader(file.content.header)
       IN  /\ opened' = Append(opened, e)
           /\ out' = out \o HwpStreamLines(OleRead(file.content, e),
                                           hdr.compressed)
    /\ queue' = Tail(queue)
    /\ UNCHANGED <<pc, file, args, kind, stack, buf, cur, flushes, written,
                   err>>

\* extract_hwpx_lines up to the for loop
OpenHwpx ==
    /\ pc = "dispatch"
    /\ Dispatch(kind) = "extract_hwpx_lines"
    /\ IF file.content.type # "zip" THEN Fail("BadZipFile")
       ELSE /\ queue' = HwpxSections(ZipNamelist(file.content))
            /\ pc' = "hwpx_loop"
            /\ UNCHANGED <<file, args, kind, opened, out, stack, buf, cur,
                           flushes, written, err>>

\* one iteration of the for loop of extract_hwpx_lines
HwpxSection ==
    /\ pc = "hwpx_loop"
    /\ queue # <<>>
    /\ LET part == ZipPart(file.content, Head(queue))
       IN  /\ opened' = Append(opened, Head(queue))
           /\ out' = SectionResult(part, out)
    /\ queue' = Tail(queue)
    /\ UNCHANGED <<pc, file, args, kind, stack, buf, cur, flushes, written,
                   err>>

\* return out, from either extractor
Return ==
    /\ pc \in {"hwp_loop", "hwpx_loop"}
    /\ queue = <<>>
    /\ pc' = "extracted"
    /\ UNCHANGED <<file, args, kind, queue, opened, out, stack, buf, cur,
                   flushes, written, err>>

\* main: the optional hard wrap
HardWrap ==
    /\ pc = "extracted"
    /\ out' = IF args.hard_wrap # 0 /\ args.hard_wrap > 0
              THEN hard_wrap_lines(out, args.hard_wrap) ELSE out
    /\ pc' = "wrapped"
    /\ UNCHANGED <<file, args, kind, queue, opened, stack, buf, cur,
                   flushes, written, err>>

\* main: serialise and write to --out or to standard output
WriteOut ==
    /\ pc = "wrapped"
    /\ written' = Append(written,
           [to  |-> IF args.out THEN "file" ELSE "stdout",
            obj |-> [file |-> file.name, format |-> kind, lines |-> out]])
    /\ pc' = "done"
    /\ UNCHANGED <<file, args, kind, queue, opened, out, stack, buf, cur,
                   flushes, err>>

Next ==
    \/ Detect
    \/ Unknown
    \/ OpenHwp
    \/ HwpStream
    \/ OpenHwpx
    \/ HwpxSection
    \/ Return
    \/ HardWrap
    \/ WriteOut

Spec == Init /\ [][Next]_vars

----------------------------------------------------------------------------
(* The traversal of one section, element by element (SpecXml)              *)

\* the largest number of elements of an input tree
MaxNodes == 3

\* the tags of the input trees: a cell, a paragraph, a line break, a run
\* of text: "tc", "{n}p", "br", "t"
TreeTags == { <<116, 99>>, <<123, 110, 125, 112>>, <<98, 114>>, <<116>> }

\* the trees with n elements (TreesOf) and the sequences of trees with m
\* elements in all (ForestsOf); text and tail are <<>> or a placeholder
RECURSIVE TreesOf(_), ForestsOf(_)
TreesOf(n) ==
    IF n = 0 THEN {}
    ELSE LET forests == ForestsOf(n - 1)
         IN  {Node(t, x, y, kids) :
                  t \in TreeTags, x \in {<<>>, <<63>>}, y \in {<<>>, <<63>>},
                  kids \in forests}

ForestsOf(m) ==
    IF m = 0 THEN {<<>>}
    ELSE LET trees   == [k \in 1..m |-> TreesOf(k)]
             forests == [k \in 1..m |-> ForestsOf(m - k)]
         IN  UNION {{<<first>> \o rest : first \in trees[k],
                                         rest \in forests[k]} : k \in 1..m}

\* the number of elements of a sequence of trees (ForestSize) and of a tree
RECURSIVE ForestSize(_), TreeSize(_)
ForestSize(kids) ==
    IF kids = <<>> THEN 0
    ELSE TreeSize(Head(kids)) + ForestSize(Tail(kids))

TreeSize(node) == 1 + ForestSize(node.kids)

\* the tree with every text made unique: the k-th element in document order
\* has the text chr(96 + k) ("a", "b", ...) and the tail chr(64 + k) ("A",
\* "B", ...) where it has any; so a line tells where its characters are from
RECURSIVE Labelled(_, _), LabelledKids(_, _)
Labelled(node, k) ==
    [tag  |-> node.tag,
     text |-> IF node.text = <<>> THEN <<>> ELSE <<96 + k>>,
     tail |-> IF node.tail = <<>> THEN <<>> ELSE <<64 + k>>,
     kids |-> LabelledKids(node.kids, k + 1)]

\* the trees of a sequence labelled from k on
LabelledKids(kids, k) ==
    IF kids = <<>> THEN <<>>
    ELSE <<Labelled(Head(kids), k)>>
             \o LabelledKids(Tail(kids), k + TreeSize(Head(kids)))

\* a table cell <tc> ("{n}TC" when upper) with or without leading text and
\* with the content given
Cell(upper, own, content) ==
    Node(IF upper THEN <<123, 110, 125, 84, 67>> ELSE <<116, 99>>,
         IF own THEN <<63>> ELSE <<>>, <<>>, content)

\* what the cells of the input rows hold besides their leading text:
\* nothing, <t>text</t>, <p>text</p>, <p><t>text</t></p>
CellContents ==
    LET text == Node(<<116>>, <<63>>, <<>>, <<>>)
    IN  { <<>>, <<text>>,
          << Node(<<112>>, <<63>>, <<>>, <<>>) >>,
          << Node(<<112>>, <<>>, <<>>, <<text>>) >> }

\* a table row <tr> of two cells
Rows ==
    {Node(<<116, 114>>, <<>>, <<>>, <<Cell(FALSE, o1, c1), Cell(u, o2, c2)>>) :
         o1 \in BOOLEAN, o2 \in BOOLEAN, u \in BOOLEAN,
         c1 \in CellContents, c2 \in CellContents}

\* texts with blanks: none, " ", "a  b", " a ", two no-break spaces and
\* "b", "a", space, tab, space, "b"
SpacedTexts ==
    { <<>>, <<32>>, <<97, 32, 32, 98>>, <<32, 97, 32>>, <<160, 160, 98>>,
      <<97, 32, 9, 32, 98>> }

\* sections <sec> with a text and one child, a paragraph <p> or a line
\* break <br>, with a text and a tail, the texts with blanks
SpacedTrees ==
    {Node(<<115, 101, 99>>, x, <<>>, << Node(t, y, z, <<>>) >>) :
        x \in SpacedTexts, y \in SpacedTexts, z \in SpacedTexts,
        t \in { <<112>>, <<98, 114>> }}

\* the input trees: every tree of at most most elements whose root has no
\* tail, the rows, and the sections whose texts have blanks
RECURSIVE Trees(_)
Trees(most) ==
    IF most = 0 THEN {Labelled(r, 1) : r \in Rows} \cup SpacedTrees
    ELSE Trees(most - 1)
             \cup {Labelled(t, 1) : t \in {r \in TreesOf(most) : r.tail = <<>>}}

InitXml ==
    /\ file \in {[root |-> t] : t \in Trees(MaxNodes)}
    /\ pc = "walk"
    /\ stack = <<file.root>>
    /\ buf = <<>>
    /\ out = <<>>
    /\ flushes = <<>>
    /\ args = <<>>
    /\ kind = "HWPX"
    /\ queue = <<>>
    /\ opened = <<>>
    /\ cur = <<>>
    /\ written = <<>>
    /\ err = ""

\* the traversal state held in the variables
Traversal == [stack |-> stack, buf |-> buf, out |-> out, flushes |-> flushes]

SetTraversal(t) ==
    /\ stack' = t.stack
    /\ buf' = t.buf
    /\ out' = t.out
    /\ flushes' = t.flushes

\* one iteration of "while stack"; opened records the elements visited
XmlVisit ==
    /\ pc = "walk"
    /\ stack # <<>>
    /\ SetTraversal(Visit(Traversal))
    /\ opened' = Append(opened, stack[Len(stack)])
    /\ UNCHANGED <<pc, file, args, kind, queue, cur, written, err>>

\* the flush() after the loop
XmlEnd ==
    /\ pc = "walk"
    /\ stack = <<>>
    /\ SetTraversal(flush(Traversal, EndMark))
    /\ pc' = "walked"
    /\ UNCHANGED <<file, args, kind, queue, opened, cur, written, err>>

NextXml ==
    \/ XmlVisit
    \/ XmlEnd

SpecXml == InitXml /\ [][NextXml]_vars

----------------------------------------------------------------------------
(* extract_hwp_lines on compound files with any FileHeader (SpecHdr)       *)

\* a FileHeader stream of n bytes with the version bytes ver at 32..35 and
\* the bytes word of the flag word at 36..39
FileHeaderWith(ver, word, n) ==
    [i \in 1..n |-> IF i \in 33..36 THEN ver[i - 32]
                    ELSE IF i \in 37..40 THEN word[i - 36]
                    ELSE 0]

\* the FileHeader streams: 0 to 52 bytes long, version 5.0.3.0 or 5.1.1.1,
\* the low byte of the flag word with any of its low three bits and with
\* all or none of the others, the high bytes all 0 or all 255
FileHeaders ==
    {FileHeaderWith(ver, <<low + rest, high, high, high>>, n) :
        ver \in {<<0, 3, 0, 5>>, <<1, 1, 1, 5>>},
        low \in 0..7, rest \in {0, 248}, high \in {0, 255},
        n \in {0, 36, 40, 47, 48, 52}}

\* extract_hwp_lines is entered for a compound file with any of the headers
\* and the body streams Section2 and Section1, stored deflated or plain
InitHdr ==
    /\ file \in {InputFile(<<120, 46, 104, 119, 112>>, OleMagic,
                     [OleContent(0, 0, << <<83, 101, 99, 116, 105, 111, 110, 50>>,
                                         <<83, 101, 99, 116, 105, 111, 110, 49>> >>,
                                 deflated) EXCEPT !.header = h]) :
                     h \in FileHeaders, deflated \in BOOLEAN}
    /\ args \in {a \in ArgSets : a.has_ole /\ a.hard_wrap = 0 /\ ~a.out}
    /\ pc = "dispatch"
    /\ kind = "HWP5"
    /\ queue = <<>>
    /\ opened = <<>>
    /\ out = <<>>
    /\ stack = <<>>
    /\ buf = <<>>
    /\ cur = <<>>
    /\ flushes = <<>>
    /\ written = <<>>
    /\ err = ""

NextHdr ==
    \/ OpenHwp
    \/ HwpStream
    \/ Return

SpecHdr == InitHdr /\ [][NextHdr]_vars

----------------------------------------------------------------------------
(* The decoding of one body stream, record by record (SpecRec)             *)

\* the largest number of characters of a paragraph text
MaxTextLen == 3

\* the strings over alphabet of at most n characters
RECURSIVE StringsUpTo(_, _)
StringsUpTo(alphabet, n) ==
    IF n = 0 THEN {<<>>}
    ELSE LET shorter == StringsUpTo(alphabet, n - 1)
         IN  shorter \cup {Append(q, c) : q \in {r \in shorter : Len(r) = n - 1},
                                          c \in alphabet}

\* the characters of the paragraph texts: U+AC00, U+B098, CR, LF, space and
\* the control character U+0001
TextAlphabet == {44032, 45208, 13, 10, 32, 1}

\* the records of the input streams: one paragraph text of any content, or
\* two records out of a few with tag 66 or 67 and level 0 or 1; long tells
\* whether the size of the record is stored in the escaped form
RecordLists ==
    LET few == {[tag |-> t, level |-> l, text |-> x, long |-> e] :
                   t \in {66, 67}, l \in {0, 1},
                   x \in {<<>>, <<44032>>, <<44032, 13, 45208>>, <<32>>},
                   e \in BOOLEAN}
    IN  {<<[tag |-> 66, level |-> 0, text |-> x, long |-> e]>> :
             x \in StringsUpTo(TextAlphabet, MaxTextLen), e \in BOOLEAN}
        \cup {<<r1, r2>> : r1 \in few, r2 \in few}

\* the bytes of a stream holding the records given
RECURSIVE EncodeRecords(_)
EncodeRecords(recs) ==
    IF recs = <<>> THEN <<>>
    ELSE (IF Head(recs).long
          THEN EncodeRecordLong(Head(recs).tag, Head(recs).level,
                                EncodeUtf16(Head(recs).text))
          ELSE EncodeRecord(Head(recs).tag, Head(recs).level,
                            EncodeUtf16(Head(recs).text)))
             \o EncodeRecords(Tail(recs))

\* a stream with its records stored plain (compression flag cleared) or
\* deflated (flag set)
RecordStreams ==
    {[truth |-> recs, compressed |-> c,
      stored |-> IF c THEN [raw |-> <<120, 156, 1>>, inflates |-> TRUE,
                            inflated |-> EncodeRecords(recs)]
                 ELSE [raw |-> EncodeRecords(recs), inflates |-> FALSE,
                       inflated |-> <<>>]] :
         recs \in RecordLists, c \in BOOLEAN}

InitRec ==
    /\ file \in RecordStreams
    /\ pc = "stream"
    /\ buf = <<>>
    /\ cur = 0
    /\ out = <<>>
    /\ opened = <<>>
    /\ args = <<>>
    /\ kind = "HWP5"
    /\ queue = <<>>
    /\ stack = <<>>
    /\ flushes = <<>>
    /\ written = <<>>
    /\ err = ""

\* data = _zlib_if_needed(raw, hdr["compressed"])
RecOpen ==
    /\ pc = "stream"
    /\ buf' = _zlib_if_needed(file.stored, file.compressed)
    /\ cur' = 0
    /\ pc' = "records"
    /\ UNCHANGED <<file, args, kind, queue, opened, out, stack, flushes,
                   written, err>>

\* _iter_records yields a record and the loop body handles it; opened
\* records what was yielded
RecYield ==
    /\ pc = "records"
    /\ ~RecordAt(buf, cur).stop
    /\ LET r == RecordAt(buf, cur)
       IN  /\ opened' = Append(opened, [tag |-> r.tag, payload |-> r.payload])
           /\ out' = out \o RecordLines(r)
           /\ cur' = r.off
    /\ UNCHANGED <<pc, file, args, kind, queue, stack, buf, flushes, written,
                   err>>

\* _iter_records is exhausted
RecStop ==
    /\ pc = "records"
    /\ RecordAt(buf, cur).stop
    /\ pc' = "records_done"
    /\ UNCHANGED <<file, args, kind, queue, opened, out, stack, buf, cur,
                   flushes, written, err>>

NextRec ==
    \/ RecOpen
    \/ RecYield
    \/ RecStop

SpecRec == InitRec /\ [][NextRec]_vars

----------------------------------------------------------------------------
(* The decoding of any bytes as a body stream (SpecBuf)                    *)

\* the largest number of bytes of an arbitrary input buffer
MaxBufLen == 5

\* the bytes of the arbitrary buffers: with them a header word can hold the
\* tags 0, 1, 16, 66, ... and the sizes 0, 1, 15, 16, ..., 0xFFF
ByteAlphabet == {0, 1, 16, 66, 240, 255}

\* the prefixes of a byte string
Prefixes(b) == {SubSeq(b, 1, n) : n \in 0..Len(b)}

\* the input buffers: every byte string of at most MaxBufLen bytes, and
\* every prefix of a few streams of two records (well-formed streams cut
\* short at any byte)
Buffers ==
    LET few == {[tag |-> 66, level |-> l, text |-> x, long |-> e] :
                   l \in {0, 1}, x \in {<<>>, <<44032>>, <<44032, 13, 45208>>},
                   e \in BOOLEAN}
    IN  StringsUpTo(ByteAlphabet, MaxBufLen)
        \cup UNION {Prefixes(EncodeRecords(<<r1, r2>>)) : r1 \in few, r2 \in few}

\* a body stream holding any of the buffers; it never inflates, so with the
\* compression flag set _zlib_if_needed falls back to the stored bytes
InitBuf ==
    /\ file \in {[truth |-> <<>>, compressed |-> c,
                   stored |-> [raw |-> b, inflates |-> FALSE, inflated |-> <<>>]] :
                     b \in Buffers, c \in BOOLEAN}
    /\ pc = "stream"
    /\ buf = <<>>
    /\ cur = 0
    /\ out = <<>>
    /\ opened = <<>>
    /\ args = <<>>
    /\ kind = "HWP5"
    /\ queue = <<>>
    /\ stack = <<>>
    /\ flushes = <<>>
    /\ written = <<>>
    /\ err = ""

SpecBuf == InitBuf /\ [][NextRec]_vars

\* list(_iter_records(buf)) on its own, for any of the buffers: cur is off
\* and opened the records yielded so far
InitIter ==
    /\ buf \in Buffers
    /\ pc = "records"
    /\ cur = 0
    /\ opened = <<>>
    /\ file = <<>>
    /\ out = <<>>
    /\ args = <<>>
    /\ kind = "HWP5"
    /\ queue = <<>>
    /\ stack = <<>>
    /\ flushes = <<>>
    /\ written = <<>>
    /\ err = ""

\* one pass of the while loop, up to its yield
IterYield ==
    /\ pc = "records"
    /\ ~RecordAt(buf, cur).stop
    /\ cur' = RecordAt(buf, cur).off
    /\ opened' = Append(opened, [tag |-> RecordAt(buf, cur).tag,
                                  payload |-> RecordAt(buf, cur).payload])
    /\ UNCHANGED <<pc, file, args, kind, queue, out, stack, buf, flushes,
                   written, err>>

\* the while condition fails, or the break is taken
IterStop ==
    /\ pc = "records"
    /\ RecordAt(buf, cur).stop
    /\ pc' = "records_done"
    /\ UNCHANGED <<file, args, kind, queue, opened, out, stack, buf, cur,
                   flushes, written, err>>

NextIter ==
    \/ IterYield
    \/ IterStop

\* the generator is run until it is exhausted
SpecIter == InitIter /\ [][NextIter]_vars /\ WF_vars(NextIter)

----------------------------------------------------------------------------
(* hard_wrap_lines, iteration by iteration (SpecWrap)                      *)

\* the largest number of characters of an input line
MaxLineLen == 6

\* the largest width
MaxWidth == 5

\* the characters of the input lines: "a", space, "." and ","
LineAlphabet == {97, 32, 46, 44}

\* the input line lists: one line of any content, or two lines out of a few
LineLists ==
    LET few == {<<>>, <<97>>, <<32, 97, 32>>, <<97, 32, 97, 97>>,
                <<97, 44, 32, 97, 32, 97>>}
    IN  {<<x>> : x \in StringsUpTo(LineAlphabet, MaxLineLen)}
        \cup {<<x, y>> : x \in few, y \in few}
        \cup {<<>>}

\* longer lines, wrapped at the widths 5 and 7: "a. , aaaa", "aaa a aaa",
\* "a aaaaaaa", "a, aa. aaa", "a. , aaaaaaaaa"
LongLines ==
    { <<97, 46, 32, 44, 32, 97, 97, 97, 97>>,
      <<97, 46, 32, 44, 32, 97, 97, 97, 97, 97, 97, 97, 97, 97>>,
      <<97, 97, 97, 32, 97, 32, 97, 97, 97>>,
      <<97, 32, 97, 97, 97, 97, 97, 97, 97>>,
      <<97, 44, 32, 97, 97, 46, 32, 97, 97, 97>> }

\* the lines and the width; the function is entered from main ("wrap_main")
\* or called as it is ("wrap_enter")
InitWrap ==
    /\ \/ /\ queue \in LineLists
          /\ args \in [hard_wrap : (-1)..MaxWidth]
       \/ /\ queue \in {<<x>> : x \in LongLines}
          /\ args \in [hard_wrap : {5, 7}]
    /\ file = [lines |-> queue]
    /\ pc \in {"wrap_main", "wrap_enter"}
    /\ cur = <<>>
    /\ out = <<>>
    /\ kind = ""
    /\ opened = <<>>
    /\ stack = <<>>
    /\ buf = <<>>
    /\ flushes = <<>>
    /\ written = <<>>
    /\ err = ""

\* main: if args.hard_wrap and args.hard_wrap > 0: lines = hard_wrap_lines(...)
WrapMain ==
    /\ pc = "wrap_main"
    /\ IF args.hard_wrap # 0 /\ args.hard_wrap > 0
       THEN /\ pc' = "wrap_enter"
            /\ UNCHANGED <<out, queue>>
       ELSE /\ out' = queue
            /\ queue' = <<>>
            /\ pc' = "wrap_skipped"
    /\ UNCHANGED <<file, args, kind, opened, stack, buf, cur, flushes,
                   written, err>>

\* if width <= 0: return lines
WrapEnter_drops_empty ==
    /\ pc = "wrap_enter"
    /\ IF args.hard_wrap <= 0
       THEN /\ out' = Filter(queue, {queue[i] : i \in 1..Len(queue)} \ {<<>>})
            /\ queue' = <<>>
            /\ pc' = "wrap_done"
       ELSE /\ pc' = "wrap_for"
            /\ UNCHANGED <<out, queue>>
    /\ UNCHANGED <<file, args, kind, opened, stack, buf, cur, flushes,
                   written, err>>

WrapEnter ==
    /\ pc = "wrap_enter"
    /\ IF args.hard_wrap <= 0
       THEN /\ out' = queue
            /\ queue' = <<>>
            /\ pc' = "wrap_done"
       ELSE /\ pc' = "wrap_for"
            /\ UNCHANGED <<out, queue>>
    /\ UNCHANGED <<file, args, kind, opened, stack, buf, cur, flushes,
                   written, err>>

\* for ln in lines: s = ln
WrapNextLine ==
    /\ pc = "wrap_for"
    /\ queue # <<>>
    /\ cur' = Head(queue)
    /\ queue' = Tail(queue)
    /\ pc' = "wrap_while"
    /\ UNCHANGED <<file, args, kind, opened, out, stack, buf, flushes,
                   written, err>>

\* one iteration of the while loop; opened records the cut positions
WrapIterate ==
    /\ pc = "wrap_while"
    /\ NeedsWrap(cur, args.hard_wrap)
    /\ out' = Append(out, WrapStep(cur, args.hard_wrap).piece)
    /\ cur' = WrapStep(cur, args.hard_wrap).rest
    /\ opened' = Append(opened, [s |-> cur, cut |-> WrapCut(cur, args.hard_wrap)])
    /\ UNCHANGED <<pc, file, args, kind, queue, stack, buf, flushes, written,
                   err>>

\* if s: wrapped.append(s)
WrapRemainder ==
    /\ pc = "wrap_while"
    /\ ~NeedsWrap(cur, args.hard_wrap)
    /\ out' = IF cur # <<>> THEN Append(out, cur) ELSE out
    /\ cur' = <<>>
    /\ pc' = "wrap_for"
    /\ UNCHANGED <<file, args, kind, queue, opened, stack, buf, flushes,
                   written, err>>

\* return wrapped
WrapReturn ==
    /\ pc = "wrap_for"
    /\ queue = <<>>
    /\ pc' = "wrap_done"
    /\ UNCHANGED <<file, args, kind, queue, opened, out, stack, buf, cur,
                   flushes, written, err>>

NextWrap ==
    \/ WrapMain
    \/ WrapEnter
    \/ WrapNextLine
    \/ WrapIterate
    \/ WrapRemainder
    \/ WrapReturn

SpecWrap == InitWrap /\ [][NextWrap]_vars

\* the lines and the width of the runs followed to their end: one short
\* line of any content, two lines out of a few, or one longer line
InitWrapFair ==
    /\ InitWrap
    /\ \/ Len(queue) # 1
       \/ Len(queue[1]) <= MaxLineLen - 3
       \/ queue[1] \in LongLines

\* the function runs to its return: no step of it waits for anything
SpecWrapFair == InitWrapFair /\ [][NextWrap]_vars /\ WF_vars(NextWrap)

----------------------------------------------------------------------------
(* One text through the line normalisation of either format (SpecNorm)     *)

\* the largest number of characters of the text
MaxNormLen == 4

\* the characters of the texts: "a", space, tab, no-break space, line feed
\* and the control character U+0001
NormAlphabet == {97, 32, 9, 160, 10, 1}

\* ET.fromstring accepts the text: XML 1.0 admits no control character
\* other than tab, line feed and carriage return
XmlLegal(text) ==
    \A i \in 1..Len(text) : text[i] >= 32 \/ text[i] \in {9, 10, 13}

InitNorm ==
    /\ file \in {[line |-> x] : x \in StringsUpTo(NormAlphabet, MaxNormLen)}
    /\ pc = "norm"
    /\ out = <<>>
    /\ args = <<>>
    /\ kind = ""
    /\ queue = <<>>
    /\ opened = <<>>
    /\ stack = <<>>
    /\ buf = <<>>
    /\ cur = <<>>
    /\ flushes = <<>>
    /\ written = <<>>
    /\ err = ""

\* the text is the payload of the one tag-66 record of an uncompressed body
\* stream: the loop body of extract_hwp_lines
NormHwp ==
    /\ pc = "norm"
    /\ LET raw == EncodeRecord(HWPTAG_PARA_TEXT, 0, EncodeUtf16(file.line))
       IN  out' = HwpStreamLines([raw |-> raw, inflates |-> FALSE,
                                  inflated |-> <<>>], FALSE)
    /\ kind' = "HWP5"
    /\ pc' = "norm_hwp"
    /\ UNCHANGED <<file, args, queue, opened, stack, buf, cur, flushes,
                   written, err>>

\* the text is the text of the one paragraph <p> of a section <sec>: the
\* loop body of extract_hwpx_lines
NormHwpx ==
    /\ pc = "norm"
    /\ LET para == Node(<<112>>, file.line, <<>>, <<>>)
           part == [ok   |-> XmlLegal(file.line),
                    root |-> Node(<<115, 101, 99>>, <<>>, <<>>, <<para>>)]
       IN  out' = SectionResult(part, <<>>)
    /\ kind' = "HWPX"
    /\ pc' = "norm_hwpx"
    /\ UNCHANGED <<file, args, queue, opened, stack, buf, cur, flushes,
                   written, err>>

NextNorm ==
    \/ NormHwp
    \/ NormHwpx

SpecNorm == InitNorm /\ [][NextNorm]_vars

----------------------------------------------------------------------------
(* Properties of main, checked under Spec                                  *)

\* the section number a part name or an output line carries: the value of
\* its digits, -1 when it has none
NumberIn(text) ==
    IF Filter(text, 48..57) = <<>> THEN -1
    ELSE DigitsValue(Filter(text, 48..57), 0)

\* C1: extract_hwpx_lines processes the body section parts in ascending
\* order of their section number, and so do the lines come out: every line
\* of section 2 precedes every line of section 10.
C1_SectionsInNumericOrder ==
    (kind = "HWPX" /\ pc = "extracted") =>
        /\ \A i, j \in 1..Len(opened) :
              (/\ i < j
               /\ ZipPart(file.content, opened[i]).ok
               /\ ZipPart(file.content, opened[j]).ok
               /\ NumberIn(opened[i]) >= 0 /\ NumberIn(opened[j]) >= 0)
                  => NumberIn(opened[i]) <= NumberIn(opened[j])
        /\ \A i, j \in 1..Len(out) :
              (i < j /\ NumberIn(out[i]) >= 0 /\ NumberIn(out[j]) >= 0)
                  => NumberIn(out[i]) <= NumberIn(out[j])

\* the number the claim assigns to a body stream name
C2_Number(name) ==
    CASE name = <<83, 101, 99, 116, 105, 111, 110, 49>> -> 1
      [] name = <<83, 101, 99, 116, 105, 111, 110, 50>> -> 2
      [] name = <<83, 101, 99, 116, 105, 111, 110, 49, 48>> -> 10
      [] name = <<83, 101, 99, 116, 105, 111, 110>> -> 0
      [] name = <<83, 101, 99, 116, 105, 111, 110, 48, 50>> -> 2

\* the body stream names of the input compound file, in directory order
C2_Listed ==
    LET paths == OleListdir(file.content)
        idx   == {i \in 1..Len(paths) :
                     /\ Len(paths[i]) = 2
                     /\ paths[i][1] = <<66, 111, 100, 121, 84, 101, 120, 116>>}
    IN  [i \in 1..Len(paths) |-> IF i \in idx THEN paths[i][2] ELSE <<>>]

\* C2: extract_hwp_lines opens the BodyText/Section* streams in ascending
\* order of the integer formed by the digits of the name (0 without
\* digits), whatever the directory order; all of them are opened once the
\* loop is over, and the lines come out in that order.
C2_StreamsInNumericOrder ==
    kind = "HWP5" =>
        /\ \A i, j \in 1..Len(opened) :
              i < j => C2_Number(opened[i][2]) <= C2_Number(opened[j][2])
        /\ pc = "extracted" =>
              /\ {opened[i][2] : i \in 1..Len(opened)}
                     = {C2_Listed[i] : i \in 1..Len(C2_Listed)} \ {<<>>}
              /\ Len(opened) = Cardinality({opened[i][2] : i \in 1..Len(opened)})
              /\ (file.content.deflated => file.content.header[37] % 2 = 1)
                     => out = [i \in 1..Len(opened) |-> StreamText(opened[i][2])]

\* C2 witness: the directory lists Section10, Section2, Section1 in this
\* order and the streams were opened in the order 1, 2, 10
C2_Witness ==
    /\ pc = "extracted"
    /\ kind = "HWP5"
    /\ Filter(C2_Listed, StreamNames)
           = << <<83, 101, 99, 116, 105, 111, 110, 49, 48>>,
                <<83, 101, 99, 116, 105, 111, 110, 50>>,
                <<83, 101, 99, 116, 105, 111, 110, 49>> >>
    /\ out = << <<105, 111, 110, 49>>, <<105, 111, 110, 50>>,
                <<105, 111, 110, 49, 48>> >>

\* the input is a compound file whose FileHeader has the encryption bit
\* (bit 1 of the flag word at byte 36) set
C3_Encrypted ==
    /\ file.exists
    /\ file.content.type = "ole"
    /\ Len(file.content.header) >= 48
    /\ file.content.header[37] \in {2, 3, 6, 7}

\* C3: on an encrypted file no body stream is ever opened or decoded, no
\* line is extracted, nothing is written, and the run can only end failed.
C3_EncryptedFails ==
    C3_Encrypted =>
        /\ opened = <<>>
        /\ out = <<>>
        /\ written = <<>>
        /\ pc \in {"main", "dispatch", "failed"}

\* C3 witness: an encrypted file made the run fail in extract_hwp_lines
C3_Witness ==
    /\ C3_Encrypted
    /\ args.has_ole
    /\ pc = "failed"
    /\ err = "RuntimeError"

\* C4: when detect_container reports UNKNOWN the run fails with the
\* ValueError of extract_any_lines, no extractor having opened anything,
\* and nothing is written; in every run what is written is written after
\* the extraction returned.
C4_UnknownFails ==
    /\ kind = "UNKNOWN" =>
          /\ pc \in {"dispatch", "failed"}
          /\ pc = "failed" => err = "ValueError"
          /\ opened = <<>> /\ queue = <<>> /\ out = <<>>
          /\ written = <<>>
    /\ written # <<>> =>
          /\ pc = "done"
          /\ err = ""
          /\ kind \in {"HWP5", "HWPX"}
          /\ queue = <<>>
    /\ pc \in {"failed", "main", "dispatch", "hwp_loop", "hwpx_loop"}
          => written = <<>>

\* C4 witness: an unclassifiable file ended the run in failure
C4_Witness ==
    /\ kind = "UNKNOWN"
    /\ pc = "failed"
    /\ file.name = <<120, 46, 116, 120, 116>>

\* the extension of the input names, as the claim reads it
C5_Extension(name) ==
    CASE name \in {<<120, 46, 104, 119, 112>>, <<120, 46, 72, 87, 80>>} -> "hwp"
      [] name \in {<<120, 46, 104, 119, 112, 120>>,
                   <<120, 46, 72, 119, 112, 88>>} -> "hwpx"
      [] OTHER -> "none"

\* C5: the signature decides before the extension; the extension decides
\* only when neither signature matches; every other file is UNKNOWN.
C5_MagicBeforeExtension ==
    (pc # "main" /\ file.exists) =>
        LET b   == file.bytes
            ole == Len(b) >= 4 /\ SubSeq(b, 1, 4) = <<208, 207, 17, 224>>
            zip == Len(b) >= 4 /\ SubSeq(b, 1, 4) = <<80, 75, 3, 4>>
        IN  kind = IF ole THEN "HWP5"
                   ELSE IF zip THEN "HWPX"
                   ELSE IF C5_Extension(file.name) = "hwp" THEN "HWP5"
                   ELSE IF C5_Extension(file.name) = "hwpx" THEN "HWPX"
                   ELSE "UNKNOWN"

\* C5 witness: a ZIP-signed file named x.hwp was classified HWPX
C5_Witness ==
    /\ file.name = <<120, 46, 104, 119, 112>>
    /\ file.bytes = ZipMagic
    /\ kind = "HWPX"

\* the archive without the part called name
C7_Without(content, name) ==
    [content EXCEPT !.parts =
        LET keep == {i \in 1..Len(@) : @[i].name # name}
            p    == @
        IN  [k \in 1..Cardinality(keep) |->
                p[CHOOSE i \in keep :
                      Cardinality({j \in keep : j < i}) = k - 1]]]

\* the parts the loop tried and could not parse
C7_Skipped ==
    {n \in {opened[i] : i \in 1..Len(opened)} : ~ZipPart(file.content, n).ok}

\* name is a body section part: "Contents/section" ... ".xml"
C7_IsSection(name) ==
    /\ Len(name) >= 20
    /\ SubSeq(name, 1, 16) = <<67, 111, 110, 116, 101, 110, 116, 115, 47,
                               115, 101, 99, 116, 105, 111, 110>>
    /\ SubSeq(name, Len(name) - 3, Len(name)) = <<46, 120, 109, 108>>

\* removing the part called name leaves the selection of the sections as it
\* was: name is no body section part (the archive has none), or another
\* body section part remains, or the archive has no other XML part
C7_SelectionKept(name) ==
    LET all    == ZipNamelist(file.content)
        others == {all[i] : i \in 1..Len(all)} \ {name}
    IN  \/ ~C7_IsSection(name)
        \/ \E n \in others : C7_IsSection(n)
        \/ \A n \in others : ~EndsWith(Lower(n), <<46, 120, 109, 108>>)

\* C7 as stated: the result equals the result for the same archive with
\* the unparseable section removed.
C7_EqualsArchiveWithoutSection ==
    (kind = "HWPX" /\ pc = "extracted") =>
        \A n \in C7_Skipped :
            out = extract_hwpx_lines(C7_Without(file.content, n))

\* C7 amended: a section that cannot be parsed does not abort the run, the
\* lines of earlier sections are kept, the later sections are processed in
\* order, and the result equals the result for the archive without that
\* section whenever removing it leaves the selection of sections as it was.
C7_SkipsUnparseableSection ==
    (kind = "HWPX" /\ file.exists /\ file.content.type = "zip") =>
        /\ pc # "failed"
        /\ pc \in {"hwpx_loop", "extracted"} =>
              opened \o queue = HwpxSections(ZipNamelist(file.content))
        /\ pc = "extracted" =>
              \A n \in C7_Skipped :
                  C7_SelectionKept(n) =>
                      out = extract_hwpx_lines(C7_Without(file.content, n))

\* C7 witness: of three sections the second one read could not be parsed,
\* and the lines of the one before it and of the one after it came out
C7_Witness ==
    /\ pc = "extracted"
    /\ kind = "HWPX"
    /\ Len(opened) = 3
    /\ C7_Skipped = {opened[2]}
    /\ \A i \in 1..3 : C7_IsSection(opened[i])
    /\ Len(out) = 2

----------------------------------------------------------------------------
(* Properties of the record decoding, checked under SpecRec                *)

\* the elements of a set of numbers in ascending order
C6_Ascending(S) ==
    [k \in 1..Cardinality(S) |->
        CHOOSE x \in S : Cardinality({y \in S : y < x}) = k - 1]

\* the fragments of a text between its carriage returns and line feeds
C6_Fragments(text) ==
    LET cuts == C6_Ascending({0, Len(text) + 1}
                    \cup {i \in 1..Len(text) : text[i] \in {13, 10}})
    IN  [k \in 1..(Len(cuts) - 1) |-> SubSeq(text, cuts[k] + 1, cuts[k + 1] - 1)]

\* a fragment without its leading and trailing blanks and control
\* characters, the control characters inside it turned into spaces
C6_Cleaned(frag) ==
    LET seen == {i \in 1..Len(frag) : frag[i] > 32}
        lo   == CHOOSE i \in seen : \A j \in seen : i <= j
        hi   == CHOOSE i \in seen : \A j \in seen : j <= i
    IN  IF seen = {} THEN <<>>
        ELSE [i \in 1..(hi - lo + 1) |->
                 IF frag[lo + i - 1] < 32 THEN 32 ELSE frag[lo + i - 1]]

\* the non-empty members of a sequence of strings
C6_NonEmpty(strings) ==
    LET idx == C6_Ascending({i \in 1..Len(strings) : strings[i] # <<>>})
    IN  [k \in 1..Len(idx) |-> strings[idx[k]]]

\* the lines expected of the records: Raw counts a fragment as it stands
RECURSIVE C6_Expected(_, _)
C6_Expected(recs, raw) ==
    IF recs = <<>> THEN <<>>
    ELSE LET frags == C6_Fragments(Head(recs).text)
             lines == IF raw THEN C6_NonEmpty(frags)
                      ELSE C6_NonEmpty([i \in 1..Len(frags) |->
                                           C6_Cleaned(frags[i])])
         IN  (IF Head(recs).tag = 66 THEN lines ELSE <<>>)
                 \o C6_Expected(Tail(recs), raw)

\* C6 as stated: with the compression flag cleared every tag-66 record
\* contributes one line per non-empty fragment of its text split at
\* carriage returns and line feeds, other records none.
C6_LinePerNonEmptyFragment ==
    (pc = "records_done" /\ ~file.compressed) =>
        Len(out) = Len(C6_Expected(file.truth, TRUE))

\* C6 amended: with the compression flag cleared every tag-66 record
\* contributes, in encounter order, one line per fragment that is not empty
\* once its control characters are replaced by spaces and the surrounding
\* whitespace is stripped (the line is that cleaned fragment), and records
\* with any other tag contribute no line.
C6_LinePerCleanedFragment ==
    (pc = "records_done" /\ ~file.compressed) =>
        out = C6_Expected(file.truth, FALSE)

\* C6 witness: a single tag-66 record holding U+AC00, CR, U+B098 gave the
\* two lines U+AC00 and U+B098
C6_Witness ==
    /\ pc = "records_done"
    /\ ~file.compressed
    /\ Len(file.truth) = 1
    /\ file.truth[1].text = <<44032, 13, 45208>>
    /\ out = << <<44032>>, <<45208>> >>

----------------------------------------------------------------------------
(* Properties of the traversal, checked under SpecXml                      *)

\* the characters of the texts inside an element: its own text and, of
\* every descendant, text and tail
RECURSIVE C8_Letters(_)
C8_Letters(node) ==
    {node.text[i] : i \in 1..Len(node.text)}
    \cup UNION {C8_Letters(node.kids[i])
                    \cup {node.kids[i].tail[j] : j \in 1..Len(node.kids[i].tail)} :
                i \in 1..Len(node.kids)}

\* the cells and rows of a tree
RECURSIVE C8_Units(_)
C8_Units(node) ==
    (IF node.tag \in {<<116, 99>>, <<123, 110, 125, 84, 67>>, <<116, 114>>}
     THEN {node} ELSE {})
    \cup UNION {C8_Units(node.kids[i]) : i \in 1..Len(node.kids)}

\* C8: text of two different cells (or rows), neither inside the other,
\* never ends up in the same output line.
C8_CellsNeverShareALine ==
    \A a, b \in C8_Units(file.root) :
        C8_Letters(a) \cap C8_Letters(b) = {} =>
            \A i \in 1..Len(out) :
                LET line == {out[i][k] : k \in 1..Len(out[i])}
                IN  line \cap C8_Letters(a) = {} \/ line \cap C8_Letters(b) = {}

\* the number of paragraph-level, line-break and table-boundary elements
RECURSIVE C9_Boundaries(_)
C9_BoundariesOf(kids, upto) ==
    LET counts == [i \in 1..upto |-> C9_Boundaries(kids[i])]
        sum[i \in 0..upto] == IF i = 0 THEN 0 ELSE sum[i - 1] + counts[i]
    IN  sum[upto]

C9_Boundaries(node) ==
    (IF node.tag \in {<<116, 99>>, <<123, 110, 125, 84, 67>>, <<116, 114>>,
                      <<123, 110, 125, 112>>, <<112>>, <<98, 114>>}
     THEN 1 ELSE 0)
    + C9_BoundariesOf(node.kids, Len(node.kids))

\* C9 as stated: the lines of a section are at most as many as its
\* paragraph-level, line-break and table-boundary elements.
C9_LinesAtMostBoundaries ==
    Len(out) <= C9_Boundaries(file.root)

\* C9 amended: the lines of a section are at most as many as its
\* paragraph-level, line-break and table-boundary elements plus one, the
\* one line of the flush that follows the walk.
C9_LinesAtMostBoundariesPlusOne ==
    Len(out) <= C9_Boundaries(file.root) + 1

\* C9 witness: a tree with text and no boundary element gave one line
C9_Witness ==
    /\ pc = "walked"
    /\ C9_Boundaries(file.root) = 0
    /\ Len(out) = 1

----------------------------------------------------------------------------
(* Properties of hard_wrap_lines, checked under SpecWrap                   *)

\* C10: for a positive width no line of the result is longer than width.
C10_NoLineExceedsWidth ==
    args.hard_wrap > 0 =>
        \A i \in 1..Len(out) : Len(out[i]) <= args.hard_wrap

\* C10 witness: a line longer than the width was wrapped into three lines
C10_Witness ==
    /\ pc = "wrap_done"
    /\ args.hard_wrap > 0
    /\ Len(file.lines) = 1
    /\ Len(file.lines[1]) > args.hard_wrap
    /\ Len(out) = 3

\* C11: hard_wrap_lines with width <= 0 returns the input line sequence as
\* it is (same lines, same order, nothing dropped or trimmed), and main
\* applies no wrapping when --hard-wrap is 0 (the default when absent): the
\* lines stay as they are.
C11_NoWrapWithoutWidth ==
    [][/\ (pc = "wrap_enter" /\ args.hard_wrap <= 0) =>
              (pc' = "wrap_done" /\ out' = file.lines)
       /\ (pc = "wrap_main" /\ args.hard_wrap = 0) =>
              (pc' = "wrap_skipped" /\ out' = file.lines)]_vars

\* C11 witness: width -1, an empty line and a line with blanks at both ends
\* came back as they were
C11_Witness ==
    /\ pc = "wrap_done"
    /\ args.hard_wrap = -1
    /\ out = << <<>>, <<32, 97, 32>> >>

\* C12 as stated: wrapping the result of hard_wrap_lines again at the same
\* width gives the same sequence, for every line sequence and every width.
C12_Idempotent ==
    pc = "wrap_done" => hard_wrap_lines(out, args.hard_wrap) = out

\* no line of the sequence begins with whitespace
C12_NoLeadingSpace(lines) ==
    \A i \in 1..Len(lines) : lines[i] = <<>> \/ ~IsSpace(lines[i][1])

\* C12 amended: for every line sequence none of whose lines begins with
\* whitespace, and every width, wrapping the result of hard_wrap_lines again
\* at the same width gives the same sequence.
C12_IdempotentWithoutLeadingSpace ==
    (pc = "wrap_done" /\ C12_NoLeadingSpace(file.lines)) =>
        hard_wrap_lines(out, args.hard_wrap) = out

\* C12 witness: a line that does not begin with whitespace was cut twice
C12_Witness ==
    /\ pc = "wrap_done"
    /\ C12_NoLeadingSpace(file.lines)
    /\ Len(file.lines) = 1
    /\ Len(opened) = 2
    /\ Len(out) = 3

\* the characters of a line sequence that are not whitespace, in order
C13_NonSpace(lines) ==
    LET all == Join(lines)
    IN  Filter(all, {c \in {all[i] : i \in 1..Len(all)} : ~IsSpace(c)})

\* C13: hard_wrap_lines only inserts breaks and trims whitespace at them:
\* the result has no more characters in all than the input, and the same
\* non-whitespace characters in the same order.
C13_OnlyBreaksAndTrims ==
    pc = "wrap_done" =>
        /\ Len(Join(out)) <= Len(Join(file.lines))
        /\ C13_NonSpace(out) = C13_NonSpace(file.lines)

\* C13 witness: a line cut where no blank is (nothing to trim) and a line
\* cut at blanks (which are trimmed away)
C13_Witness ==
    /\ pc = "wrap_done"
    /\ args.hard_wrap > 0
    /\ Len(file.lines) = 2
    /\ Len(opened) = 2
    /\ opened[1].s[opened[1].cut + 1] = 32
    /\ Len(Join(out)) < Len(Join(file.lines))

----------------------------------------------------------------------------
(* Properties of the line normalisation, checked under SpecNorm            *)

\* a normalised line: not empty, no control character, no whitespace at
\* either end, no two whitespace characters in a row
C14_Normalized(line) ==
    /\ line # <<>>
    /\ \A i \in 1..Len(line) : line[i] >= 32
    /\ ~IsSpace(line[1])
    /\ ~IsSpace(line[Len(line)])
    /\ \A i \in 1..(Len(line) - 1) : ~(IsSpace(line[i]) /\ IsSpace(line[i + 1]))

\* C14: a line that is already normalised comes out as it is, as the one
\* line, through the cleaning of the fragments of a tag-66 record and
\* through flush().
C14_NormalizedLineUnchanged ==
    (pc \in {"norm_hwp", "norm_hwpx"} /\ C14_Normalized(file.line)) =>
        out = <<file.line>>

\* C14 witness: "a", no-break space, "a" came out of flush() as it is
C14_Witness ==
    /\ pc = "norm_hwpx"
    /\ file.line = <<97, 160, 97>>
    /\ C14_Normalized(file.line)
    /\ out = <<file.line>>

\* C16: no line produced by extract_hwpx_lines holds a control character
\* below the printable range other than the horizontal tab.
C16_NoControlCharacterInHwpxLines ==
    pc = "norm_hwpx" =>
        \A i \in 1..Len(out) :
            \A k \in 1..Len(out[i]) : out[i][k] >= 32 \/ out[i][k] = 9

----------------------------------------------------------------------------
(* Further properties of main, checked under Spec                          *)

\* C15: the line list only grows at its end while an extraction runs: every
\* stream and every section leaves the lines before it as they are and
\* appends its own lines in the order it meets them, also those equal to a
\* line already there.
C15_AppendOnly ==
    [][/\ (pc = "hwp_loop" /\ queue # <<>>) =>
              out' = out \o HwpStreamLines(OleRead(file.content, Head(queue)),
                            _read_fileheader(file.content.header).compressed)
       /\ (pc = "hwpx_loop" /\ queue # <<>>) =>
              out' = out \o SectionResult(ZipPart(file.content, Head(queue)),
                                          <<>>)]_vars

\* C15 witness: two parts each gave the line "z", and both lines are there
C15_Witness ==
    /\ pc = "extracted"
    /\ kind = "HWPX"
    /\ Len(opened) = 2
    /\ Len(out) = 4
    /\ out[2] = <<122>>
    /\ out[4] = <<122>>

----------------------------------------------------------------------------
(* Further properties of the traversal, checked under SpecXml              *)

\* the text of a tree in document order: of every element its text, then
\* the text of its children in their order, then its tail
RECURSIVE C17_DocumentOrder(_), C17_DocumentOrderOf(_)
C17_DocumentOrder(node) ==
    node.text \o C17_DocumentOrderOf(node.kids) \o node.tail

C17_DocumentOrderOf(kids) ==
    IF kids = <<>> THEN <<>>
    ELSE C17_DocumentOrder(Head(kids)) \o C17_DocumentOrderOf(Tail(kids))

\* C17: the text of a section reaches the buffer, and so the lines, in
\* document order: of every element the text first, then all text of its
\* descendants, then its tail.
C17_TextInDocumentOrder ==
    pc = "walked" => Join(out) = C17_DocumentOrder(file.root)

\* the characters of the leading texts of an element and its descendants
RECURSIVE C18_Texts(_)
C18_Texts(node) ==
    {node.text[i] : i \in 1..Len(node.text)}
    \cup UNION {C18_Texts(node.kids[i]) : i \in 1..Len(node.kids)}

\* the elements of a tree, each with the characters of the leading texts of
\* the siblings that follow it
RECURSIVE C18_Elements(_, _)
C18_Elements(node, after) ==
    {[node |-> node, after |-> after]}
    \cup UNION {C18_Elements(node.kids[i],
                    UNION {C18_Texts(node.kids[j]) :
                               j \in (i + 1)..Len(node.kids)}) :
                i \in 1..Len(node.kids)}

\* C18: the flush of a paragraph-level element comes after its descendants:
\* when no break, table boundary or paragraph lies inside it, its leading
\* text and the leading texts of its descendants are together in one line,
\* and that line holds no text of a sibling that follows it.
C18_ParagraphFlushedAfterDescendants ==
    pc = "walked" =>
        \A e \in C18_Elements(file.root, {}) :
            (/\ Lower(_lname(e.node.tag)) \in _PARA_END
             /\ C9_BoundariesOf(e.node.kids, Len(e.node.kids)) = 0
             /\ C18_Texts(e.node) # {}) =>
                \E i \in 1..Len(out) :
                    LET line == {out[i][k] : k \in 1..Len(out[i])}
                    IN  /\ C18_Texts(e.node) \subseteq line
                        /\ line \cap e.after = {}

----------------------------------------------------------------------------
(* Further properties of the record decoding, checked under SpecRec        *)

\* the value of the n bits from bit lo on of the little-endian 32-bit word
\* at b[off:off+4]
C19_Field(b, off, lo, n) ==
    LET bit(k) == (b[off + 1 + (k \div 8)] \div (2 ^ (k % 8))) % 2
        sum[i \in 0..n] == IF i = 0 THEN 0
                           ELSE sum[i - 1] + bit(lo + i - 1) * (2 ^ (i - 1))
    IN  sum[n]

\* the step yields a record
C19_Yields == Len(opened') = Len(opened) + 1

\* C19 as stated: the tag id of a record is the low 10 bits of its header
\* word and its declared size the 12 bits right above them (bits 10 to 21).
C19_SizeInNextTwelveBits ==
    [][(pc = "records" /\ C19_Yields) =>
          LET rec  == opened'[Len(opened')]
              size == C19_Field(buf, cur, 10, 12)
          IN  /\ rec.tag = C19_Field(buf, cur, 0, 10)
              /\ size # 4095 =>
                     rec.payload = PySlice(buf, cur + 4, cur + 4 + size)]_vars

\* C19 amended: the tag id of a record is the low 10 bits of its header
\* word and its declared size the top 12 bits (bits 20 to 31); the 10 bits
\* between them are not used.
C19_SizeInTopTwelveBits ==
    [][(pc = "records" /\ C19_Yields) =>
          LET rec  == opened'[Len(opened')]
              size == C19_Field(buf, cur, 20, 12)
          IN  /\ rec.tag = C19_Field(buf, cur, 0, 10)
              /\ size # 4095 =>
                     rec.payload = PySlice(buf, cur + 4, cur + 4 + size)]_vars

\* C19 witness: a record with tag 66, the bits 10 to 19 set to 1 and a
\* payload of six bytes was yielded, and another record after it
C19_Witness ==
    /\ pc = "records_done"
    /\ Len(opened) = 2
    /\ opened[1].tag = 66
    /\ C19_Field(buf, 0, 10, 10) = 1
    /\ C19_Field(buf, 0, 20, 12) = 6
    /\ Len(opened[1].payload) = 6

\* the little-endian word at b[off:off+4], for words below 2^31
C20_Word(b, off) ==
    b[off + 1] + 256 * b[off + 2] + 65536 * b[off + 3] + 16777216 * b[off + 4]

\* C20: when the 12-bit size of a record is 0xFFF the word that follows
\* the header is its size and the payload starts after that word; for every
\* other 12-bit size no further word is consumed and the payload starts
\* right after the header.
C20_EscapedSize ==
    [][(pc = "records" /\ C19_Yields) =>
          LET rec   == opened'[Len(opened')]
              esc   == C19_Field(buf, cur, 20, 12) = 4095
              start == IF esc THEN cur + 8 ELSE cur + 4
              size  == IF esc THEN C20_Word(buf, cur + 4)
                       ELSE C19_Field(buf, cur, 20, 12)
          IN  /\ rec.payload = PySlice(buf, start, start + size)
              /\ cur' = Min(start + size, Len(buf))]_vars

\* C20 witness: a record with the escaped size and a payload of two bytes
\* was yielded, and after it a record with the size in its header
C20_Witness ==
    /\ pc = "records_done"
    /\ Len(opened) = 2
    /\ C19_Field(buf, 0, 20, 12) = 4095
    /\ C20_Word(buf, 4) = 2
    /\ opened[1].payload = <<0, 172>>
    /\ C19_Field(buf, 10, 20, 12) = 6
    /\ Len(opened[2].payload) = 6

----------------------------------------------------------------------------
(* Properties of the record decoding on any bytes, checked under SpecBuf   *)

\* the header at offset off is complete: the header word and, with the
\* size bits 0xFFF, the size word are inside the buffer
C21_HeaderComplete(b, off) ==
    /\ off + 4 <= Len(b)
    /\ C19_Field(b, off, 20, 12) = 4095 => off + 8 <= Len(b)

\* where the payload of the record at offset off starts
C21_Start(b, off) ==
    IF C19_Field(b, off, 20, 12) = 4095 THEN off + 8 ELSE off + 4

\* the record at offset off declares more payload than the buffer has left
C21_Truncated(b, off) ==
    IF C19_Field(b, off, 20, 12) = 4095
    THEN b[off + 8] >= 64 \/ off + 8 + C20_Word(b, off + 4) > Len(b)
    ELSE off + 4 + C19_Field(b, off, 20, 12) > Len(b)

\* C21: a record that declares more payload than the buffer has left is
\* yielded all the same, its payload being the bytes that are left; no error
\* is raised and no record is yielded after it.
C21_TruncatedRecordClamped ==
    [][/\ (/\ pc = "records"
           /\ C21_HeaderComplete(buf, cur)
           /\ C21_Truncated(buf, cur)) =>
              /\ C19_Yields
              /\ opened'[Len(opened')].payload =
                     SubSeq(buf, C21_Start(buf, cur) + 1, Len(buf))
              /\ cur' = Len(buf)
              /\ pc' = "records"
              /\ err' = ""
       /\ (pc = "records" /\ cur = Len(buf)) =>
              (~C19_Yields /\ pc' = "records_done")]_vars

\* C21 witness: a record declaring six bytes with two bytes left was
\* yielded with these two bytes, and the iteration ended
C21_Witness ==
    /\ pc = "records_done"
    /\ Len(buf) = 6
    /\ C19_Field(buf, 0, 20, 12) = 6
    /\ Len(opened) = 1
    /\ opened[1].payload = SubSeq(buf, 5, 6)
    /\ err = ""

----------------------------------------------------------------------------
(* Properties of the FileHeader, checked under SpecHdr                     *)

\* C22: _read_fileheader fails on a FileHeader of fewer than 48 bytes,
\* before any body stream is read; otherwise compressed is bit 0 and
\* encrypted bit 1 of the little-endian word at bytes 36..39, whatever the
\* other bits are, and the version is the word at bytes 32..35.
C22_FileHeaderFields ==
    LET raw == file.content.header
        hdr == _read_fileheader(raw)
    IN  IF Len(raw) < 48
        THEN /\ hdr.error = "ValueError"
             /\ opened = <<>>
             /\ pc \in {"dispatch", "failed"}
             /\ pc = "failed" => err = "ValueError"
        ELSE /\ hdr.error = ""
             /\ hdr.compressed = (C19_Field(raw, 36, 0, 1) = 1)
             /\ hdr.encrypted = (C19_Field(raw, 36, 1, 1) = 1)
             /\ hdr.ver = C20_Word(raw, 32)
             /\ pc = "failed" => (hdr.encrypted /\ err = "RuntimeError")
             /\ pc # "failed" /\ pc # "dispatch" => ~hdr.encrypted

\* C22 witness: a header of 48 bytes with every bit of the flag word set
\* but bit 1 was read as compressed and not encrypted, and the deflated
\* body streams were decoded
C22_Witness ==
    /\ pc = "extracted"
    /\ Len(file.content.header) = 48
    /\ SubSeq(file.content.header, 37, 40) = <<253, 255, 255, 255>>
    /\ file.content.deflated
    /\ Len(opened) = 2
    /\ Len(out) = 2

----------------------------------------------------------------------------
(* Properties of flush(), checked under SpecXml                            *)

\* a line as flush() emits it: not empty, no whitespace at either end, no
\* two plain or no-break spaces in a row
C23_LineOk(line) ==
    /\ line # <<>>
    /\ ~IsSpace(line[1])
    /\ ~IsSpace(line[Len(line)])
    /\ \A i \in 1..(Len(line) - 1) :
           ~(line[i] \in {32, 160} /\ line[i + 1] \in {32, 160})

\* C23: a flush leaves the buffer empty whether or not it emits a line, it
\* emits one exactly when the buffer holds something besides whitespace,
\* and every line emitted is not empty, has no whitespace at its ends and no
\* two plain or no-break spaces in a row.
C23_FlushInvariants ==
    LET t    == flush(Traversal, EndMark)
        text == Join(buf)
    IN  /\ \A i \in 1..Len(out) : C23_LineOk(out[i])
        /\ t.buf = <<>>
        /\ IF \A i \in 1..Len(text) : IsSpace(text[i])
           THEN t.out = out
           ELSE /\ Len(t.out) = Len(out) + 1
                /\ SubSeq(t.out, 1, Len(out)) = out
                /\ C23_LineOk(t.out[Len(t.out)])
        /\ pc = "walked" => buf = <<>>

\* C23 witness: the flush of the line break made "a b" of "a  b" and " ",
\* and the flush after the walk emitted nothing for the " " left over
C23_Witness ==
    /\ pc = "walked"
    /\ file.root.text = <<97, 32, 32, 98>>
    /\ file.root.kids[1].text = <<32>>
    /\ file.root.kids[1].tail = <<32>>
    /\ Len(flushes) = 2
    /\ out = << <<97, 32, 98>> >>
    /\ buf = <<>>

\* how often the character c occurs in the text s
C24_Count(s, c) == Cardinality({i \in 1..Len(s) : s[i] = c})

\* C24: after the walk and the final flush the buffer is empty, and every
\* character of the texts and tails of the section that is not whitespace
\* is in the lines as often as in the section: nothing is lost or doubled.
C24_NoTextLostOrDoubled ==
    pc = "walked" =>
        /\ buf = <<>>
        /\ LET text  == C17_DocumentOrder(file.root)
               lines == Join(out)
           IN  \A c \in {text[i] : i \in 1..Len(text)}
                          \cup {lines[i] : i \in 1..Len(lines)} :
                   ~IsSpace(c) => C24_Count(lines, c) = C24_Count(text, c)

\* C24 witness: a section of three elements, each with a text and the two
\* inner ones with a tail, gave its five characters in more than one line
C24_Witness ==
    /\ pc = "walked"
    /\ buf = <<>>
    /\ TreeSize(file.root) = 3
    /\ Len(C17_DocumentOrder(file.root)) = 5
    /\ Len(Join(out)) = 5
    /\ Len(out) > 1

----------------------------------------------------------------------------
(* Properties of the cut of hard_wrap_lines, checked under SpecWrap        *)

\* the index (0-based) of the last plain space of s at an index <= hi, -1
\* when there is none
C25_LastSpace(s, hi) ==
    LET at == {i \in 0..Min(hi, Len(s) - 1) : s[i + 1] = 32}
    IN  IF at = {} THEN -1 ELSE CHOOSE i \in at : \A j \in at : j <= i

\* the iteration of the while loop emits the first n characters of s,
\* right-trimmed, and goes on with the rest, left-trimmed
C25_BreaksAt(n) ==
    /\ out' = Append(out, RStrip(SubSeq(cur, 1, n)))
    /\ cur' = LStrip(SubSeq(cur, n + 1, Len(cur)))

\* the while loop is about to cut s
C25_Cutting == pc = "wrap_while" /\ Len(cur) > args.hard_wrap

\* C25: when the last plain space at an index <= width lies at or beyond
\* 60% of the width, the line is broken at that space: the text before it
\* is emitted and the wrapping goes on with the text after it.
C25_BreaksAtLastSpace ==
    [][LET width == args.hard_wrap
           sp    == C25_LastSpace(cur, width)
       IN  (C25_Cutting /\ sp >= 0 /\ 5 * sp >= 3 * width) =>
               C25_BreaksAt(sp)]_vars

\* the indices (0-based) at which one of the delimiters lies in s, all of
\* it within the first width characters
C26_Delimiters(s, width) ==
    {pos \in 0..(width - 2) :
        \E k \in 1..Len(WrapDelims) : SubSeq(s, pos + 1, pos + 2) = WrapDelims[k]}

\* no plain space of s at an index <= width lies at or beyond 60% of width
C26_NoSpaceQualifies(s, width) ==
    LET sp == C25_LastSpace(s, width)
    IN  sp = -1 \/ 5 * sp < 3 * width

\* C26: when no plain space qualifies and a delimiter lies within the
\* width, the line is broken right after the right-most delimiter of any
\* kind.
C26_BreaksAfterLastDelimiter ==
    [][LET width == args.hard_wrap
           found == C26_Delimiters(cur, width)
           last  == CHOOSE pos \in found : \A q \in found : q <= pos
       IN  (C25_Cutting /\ C26_NoSpaceQualifies(cur, width) /\ found # {}) =>
               C25_BreaksAt(last + 2)]_vars

\* C27: when no plain space qualifies and no delimiter lies within the
\* width, the line is broken at the width: its first width characters are
\* emitted, also when a space lies before the 60% mark.
C27_BreaksAtWidth ==
    [][LET width == args.hard_wrap
       IN  (/\ C25_Cutting
            /\ C26_NoSpaceQualifies(cur, width)
            /\ C26_Delimiters(cur, width) = {}) =>
               C25_BreaksAt(width)]_vars

\* the function has returned
C28_Returned == pc \in {"wrap_done", "wrap_skipped"}

\* the iteration of the while loop cuts within 1..width and leaves a
\* strictly shorter s
C28_Shrinks ==
    (pc = "wrap_while" /\ Len(opened') = Len(opened) + 1) =>
        /\ opened'[Len(opened')].s = cur
        /\ opened'[Len(opened')].cut \in 1..args.hard_wrap
        /\ Len(cur') < Len(cur)

\* C28: in every iteration of the wrapping loop the cut position is at least
\* 1 and at most width and the remainder becomes strictly shorter, and
\* hard_wrap_lines returns for every line list and every width.
C28_Terminates == [][C28_Shrinks]_vars /\ <>C28_Returned

\* a line was cut twice and the function has returned
C28_Witness ==
    /\ pc = "wrap_done"
    /\ args.hard_wrap >= 1
    /\ \E i \in 1..(Len(opened) - 1) :
          /\ Len(opened[i + 1].s) < Len(opened[i].s)
          /\ opened[i + 1].s = LStrip(SubSeq(opened[i].s, opened[i].cut + 1,
                                             Len(opened[i].s)))

\* the delimiter search of the iteration found a delimiter: the space
\* search gave less than 60% of the width, and a delimiter lies at an index
\* > 0 within the width
C30_DelimiterFound(s, width) ==
    /\ 5 * RFind(s, <<32>>, width) < 3 * width
    /\ \E pos \in C26_Delimiters(s, width) : pos > 0

\* C30: in every iteration, when the delimiter search finds a delimiter the
\* cut is not after the last plain space within the width, and when there
\* is no plain space within the width no delimiter is found and the cut is
\* at the width.
C30_FallbackNotLater ==
    \A i \in 1..Len(opened) :
        LET s     == opened[i].s
            width == args.hard_wrap
            space == RFind(s, <<32>>, width)
        IN  /\ C30_DelimiterFound(s, width) => opened[i].cut <= space
            /\ space = -1 =>
                  /\ C26_Delimiters(s, width) = {}
                  /\ opened[i].cut = width

\* a cut after a delimiter that lies before the last space within the
\* width, and a cut at the width of a line without a space within it
C30_Witness ==
    /\ pc = "wrap_done"
    /\ \E i \in 1..Len(opened) :
          /\ C30_DelimiterFound(opened[i].s, args.hard_wrap)
          /\ opened[i].cut < RFind(opened[i].s, <<32>>, args.hard_wrap)
    /\ \E i \in 1..Len(opened) :
          /\ RFind(opened[i].s, <<32>>, args.hard_wrap) = -1
          /\ opened[i].cut = args.hard_wrap

----------------------------------------------------------------------------
(* Termination of _iter_records, checked under SpecIter                     *)

\* the header word at the read offset has 0xFFF in its top twelve bits
C29_Escape ==
    /\ Len(buf) - cur >= 4
    /\ buf[cur + 4] = 255
    /\ buf[cur + 3] \div 16 = 15

\* one step of the iteration over the records of buf
C29_Step ==
    pc = "records" =>
        LET n    == Len(buf)
            left == n - cur
        IN  /\ cur <= n /\ cur' <= n
            /\ Len(opened') = Len(opened) + 1 =>
                  /\ cur' >= cur + 4
                  /\ cur' - cur - Len(opened'[Len(opened')].payload) \in {4, 8}
            /\ (left < 4 \/ (C29_Escape /\ left < 8)) =>
                  (opened' = opened /\ cur' = cur)

\* C29: every yielded record moves the read offset forward by at least 4,
\* by its header bytes and its payload, never past the end of the buffer;
\* a tail of fewer than 4 bytes, or an escape header without a full size
\* word, yields nothing; and the iteration ends on every buffer.
C29_Terminates == [][C29_Step]_vars /\ <>(pc = "records_done")

\* the iteration ended after a record on an escape header that has no full
\* size word behind it
C29_Witness ==
    /\ pc = "records_done"
    /\ Len(opened) >= 1
    /\ C29_Escape
    /\ Len(buf) - cur < 8

====
